---- MODULE Spec2Model ----
(***************************************************************************)
(* Model of Source/Core/Common/Src/x64ABI.cpp: the native-call ABI layer   *)
(* of the x86/x64 code emitter.  The emitter functions append instructions *)
(* to a code buffer; a small machine then executes the emitted             *)
(* instructions so that their effect on the stack pointer, the registers   *)
(* and the stack can be stated.                                            *)
(*                                                                         *)
(* Unsigned C++ values (unsigned int, u64, pointers, register contents)    *)
(* are kept as four 16-bit limbs, least significant first, so that the     *)
(* wrap-around of 32-bit and 64-bit arithmetic is computed, not assumed.   *)
(***************************************************************************)
EXTENDS Integers, Naturals, Sequences, FiniteSets, TLC

VARIABLES
    abi,        \* build target: "Win32", "Unix32", "Win64", "Unix64"
    code,       \* XEmitter::code, the emission cursor (u64)
    emitted,    \* the instructions written to the code buffer so far
    phase,      \* "idle", emission phases, "run", "done", "fault"
    op,         \* the operation under way and its arguments
    ret,        \* value returned by the last ABI_GetAlignedFrameSize call
    pc,         \* index in emitted of the next instruction to execute
    regs,       \* general-purpose registers 0..15 (4 is the stack pointer)
    xmm,        \* vector registers 0..15
    mem,        \* memory: address -> [size, val]
    entry       \* registers and vector registers on entry to the emitted code

vars == <<abi, code, emitted, phase, op, ret, pc, regs, xmm, mem, entry>>

-----------------------------------------------------------------------------
(* Bounds of the model. *)

\* frame sizes 0..MaxFrameSize, and the MaxWrap largest 32-bit values
MaxFrameSize == 130
MaxWrap == 16
\* register masks select among the first NumGPChoice / NumXMMChoice entries
\* of GPOrder / XMMOrder (and a few fixed large masks)
NumGPChoice == 4
NumXMMChoice == 2
\* register arguments are drawn from the first NumRegChoice entries of RegOrder
NumRegChoice == 5

-----------------------------------------------------------------------------
(* Unsigned arithmetic on limbs. *)

W == 256 * 256

\* a small natural number as a u64
U(n) == <<n % W, (n \div W) % W, 0, 0>>

Add64(a, b) ==
    LET s1 == a[1] + b[1]
        s2 == a[2] + b[2] + (s1 \div W)
        s3 == a[3] + b[3] + (s2 \div W)
        s4 == a[4] + b[4] + (s3 \div W)
    IN  <<s1 % W, s2 % W, s3 % W, s4 % W>>

Neg64(a) == Add64(<<W - 1 - a[1], W - 1 - a[2], W - 1 - a[3], W - 1 - a[4]>>, U(1))

Sub64(a, b) == Add64(a, Neg64(b))

Trunc32(a) == <<a[1], a[2], 0, 0>>

Add32(a, b) == Trunc32(Add64(a, b))

Sub32(a, b) == Trunc32(Sub64(a, b))

\* unsigned a < b
Lt64(a, b) ==
    \/ a[4] < b[4]
    \/ a[4] = b[4] /\ a[3] < b[3]
    \/ a[4] = b[4] /\ a[3] = b[3] /\ a[2] < b[2]
    \/ a[4] = b[4] /\ a[3] = b[3] /\ a[2] = b[2] /\ a[1] < b[1]

\* a & -k for a power of two k <= 65536 (the unsigned value of -k has every
\* bit set but the low ones)
AndNeg(a, k) == <<a[1] - (a[1] % k), a[2], a[3], a[4]>>

\* the 8-bit immediate of Imm8(u8): the argument converted to u8
ToU8(a) == a[1] % 256

\* an 8-bit immediate sign-extended to 64 bits, as ADD/SUB r/m, imm8 reads it
SignExtend8(b) == IF b < 128 THEN U(b) ELSE Neg64(U(256 - b))

\* a - b as a signed number when it is small, else Far
Far == 1000 * 1000

Diff(a, b) ==
    LET d == Sub64(a, b)
    IN  IF d[4] = 0 /\ d[3] = 0 /\ d[2] = 0 /\ d[1] < W \div 2 THEN d[1]
        ELSE IF d[4] = W - 1 /\ d[3] = W - 1 /\ d[2] = W - 1 /\ d[1] >= W \div 2
             THEN d[1] - W
        ELSE Far

-----------------------------------------------------------------------------
(* Build configuration. *)

ABIs == {"Win32", "Unix32", "Win64", "Unix64"}

M_X64 == abi \in {"Win64", "Unix64"}

M_IX86 == abi \in {"Win32", "Unix32"}

WIN32 == abi \in {"Win32", "Win64"}

RAX == 0
RCX == 1
RDX == 2
RBX == 3
RSP == 4
RBP == 5
RSI == 6
RDI == 7
R8 == 8
R9 == 9
R12 == 12
R13 == 13
R14 == 14
R15 == 15

ABI_PARAM1 == IF abi = "Win64" THEN RCX ELSE RDI

ABI_PARAM2 == IF abi = "Win64" THEN RDX ELSE RSI

ABI_PARAM3 == IF abi = "Win64" THEN R8 ELSE RDX

ABI_PARAM4 == IF abi = "Win64" THEN R9 ELSE RCX

\* width of a register and of a stack slot, in bytes
RegSize == IF M_X64 THEN 8 ELSE 4

\* pointer-width wrap of an address
Ptr(a) == IF M_X64 THEN a ELSE Trunc32(a)

-----------------------------------------------------------------------------
(* Frame Alignment Calculator. *)

ABI_GetAlignedFrameSizeNoSubtract(frameSize, noProlog) ==
    IF M_X64 THEN (IF noProlog THEN U(40) ELSE U(0))
    ELSE IF WIN32 THEN AndNeg(Add32(frameSize, U(3)), 4)
    ELSE LET existingAlignment == IF noProlog THEN U(12) ELSE U(0)
             f2 == AndNeg(Add32(frameSize, U(15)), 16)
         IN  Add32(f2, existingAlignment)

ABI_GetAlignedFrameSizeShadowOnly(frameSize, noProlog) ==
    IF M_X64 THEN (IF noProlog THEN U(32) ELSE U(0))
    ELSE IF WIN32 THEN AndNeg(Add32(frameSize, U(3)), 4)
    ELSE LET existingAlignment == IF noProlog THEN U(12) ELSE U(0)
             f1 == Sub32(frameSize, existingAlignment)
             f2 == AndNeg(Add32(f1, U(15)), 16)
         IN  Add32(f2, existingAlignment)

ABI_GetAlignedFrameSizeRoundDown(frameSize, noProlog) ==
    IF M_X64 THEN (IF noProlog THEN U(40) ELSE U(0))
    ELSE IF WIN32 THEN AndNeg(frameSize, 4)
    ELSE LET existingAlignment == IF noProlog THEN U(12) ELSE U(0)
             f1 == Sub32(frameSize, existingAlignment)
             f2 == AndNeg(f1, 16)
         IN  Add32(f2, existingAlignment)

ABI_GetAlignedFrameSizeFormulaOnUnix64(frameSize, noProlog) ==
    IF abi = "Win64" THEN (IF noProlog THEN U(40) ELSE U(0))
    ELSE IF WIN32 THEN AndNeg(Add32(frameSize, U(3)), 4)
    ELSE LET existingAlignment == IF noProlog THEN U(12) ELSE U(0)
             f1 == Sub32(frameSize, existingAlignment)
             f2 == AndNeg(Add32(f1, U(15)), 16)
         IN  Add32(f2, existingAlignment)

ABI_GetAlignedFrameSize(frameSize, noProlog) ==
    IF M_X64 THEN (IF noProlog THEN U(40) ELSE U(0))
    ELSE IF WIN32 THEN AndNeg(Add32(frameSize, U(3)), 4)
    ELSE LET existingAlignment == IF noProlog THEN U(12) ELSE U(0)
             f1 == Sub32(frameSize, existingAlignment)
             f2 == AndNeg(Add32(f1, U(15)), 16)
         IN  Add32(f2, existingAlignment)

-----------------------------------------------------------------------------
(* Operands and instructions of the emitter. *)

R(r) == [k |-> "R", r |-> r, v |-> U(0)]

XMM(x) == [k |-> "X", r |-> x, v |-> U(0)]

Imm8(a) == [k |-> "I8", r |-> 0, v |-> U(ToU8(a))]

Imm16(a) == [k |-> "I16", r |-> 0, v |-> <<a[1], 0, 0, 0>>]

Imm32(a) == [k |-> "I32", r |-> 0, v |-> Trunc32(a)]

Imm64(a) == [k |-> "I64", r |-> 0, v |-> a]

MDisp(r, offset) == [k |-> "M", r |-> r, v |-> U(offset)]

NoArg == [k |-> "N", r |-> 0, v |-> U(0)]

Insn(name, bits, dst, src) ==
    [op |-> name, bits |-> bits, dst |-> dst, src |-> src, at |-> U(0)]

\* one more byte when an operand needs a REX prefix
Rex(insn) ==
    IF M_X64 /\ (insn.bits = 64 \/ insn.dst.r >= 8 \/ insn.src.r >= 8)
    THEN 1 ELSE 0

\* encoded length of an instruction, in bytes
InsnLen(insn) ==
    CASE insn.op = "PUSH" /\ insn.src.k = "R"   -> 1 + (IF insn.src.r >= 8 THEN 1 ELSE 0)
      [] insn.op = "PUSH" /\ insn.src.k = "I16" -> 4
      [] insn.op = "PUSH" /\ insn.src.k = "I32" -> 5
      [] insn.op = "PUSH" /\ insn.src.k = "M"   -> 3
      [] insn.op = "POP"                        -> 1 + (IF insn.dst.r >= 8 THEN 1 ELSE 0)
      [] insn.op = "MOV" /\ insn.src.k = "I32"  -> 5 + (IF insn.dst.r >= 8 THEN 1 ELSE 0)
      [] insn.op = "MOV" /\ insn.src.k = "I64"  -> 10
      [] insn.op = "MOV" /\ insn.src.k = "R"    -> 2 + Rex(insn)
      [] insn.op = "MOV" /\ insn.src.k = "M"    -> 3 + Rex(insn)
      [] insn.op \in {"ADD", "SUB"} /\ insn.src.k = "I8" -> 3 + Rex(insn)
      [] insn.op \in {"ADD", "SUB"}             -> 6 + Rex(insn)
      [] insn.op \in {"MOVAPD_ST", "MOVAPD_LD"} ->
            5 + (IF insn.dst.r >= 8 \/ insn.src.r >= 8 THEN 1 ELSE 0)
              + (IF insn.dst.v[1] + insn.src.v[1] >= 128 THEN 4
                 ELSE IF insn.dst.v[1] + insn.src.v[1] > 0 THEN 1 ELSE 0)
      [] insn.op = "CALL"                       -> 5
      [] insn.op = "CALLptr"                    -> 2
      [] OTHER                                  -> 0

\* the emitter: e.code is the cursor, e.buf the instructions written
RECURSIVE TotalLen(_, _)
TotalLen(insns, n) ==
    IF n = 0 THEN 0 ELSE InsnLen(insns[n]) + TotalLen(insns, n - 1)

\* the instructions of insns written one after the other from the cursor on
EmitSeq(e, insns) ==
    [code |-> Add64(e.code, U(TotalLen(insns, Len(insns)))),
     buf  |-> e.buf \o [i \in 1..Len(insns) |->
                 [insns[i] EXCEPT !.at = Add64(e.code, U(TotalLen(insns, i - 1)))]]]

Emit(e, insn) == EmitSeq(e, <<insn>>)

InsnPUSH(reg) == Insn("PUSH", RegSize * 8, NoArg, R(reg))

InsnPOP(reg) == Insn("POP", RegSize * 8, R(reg), NoArg)

InsnMOVAPD_store(arg, reg) == Insn("MOVAPD_ST", 128, arg, XMM(reg))

InsnMOVAPD_load(reg, arg) == Insn("MOVAPD_LD", 128, XMM(reg), arg)

PUSH(e, reg) == Emit(e, InsnPUSH(reg))

PUSHarg(e, bits, arg) == Emit(e, Insn("PUSH", bits, NoArg, arg))

POP(e, reg) == Emit(e, InsnPOP(reg))

MOV(e, bits, dst, src) == Emit(e, Insn("MOV", bits, dst, src))

ADD(e, bits, dst, src) == Emit(e, Insn("ADD", bits, dst, src))

SUB(e, bits, dst, src) == Emit(e, Insn("SUB", bits, dst, src))

\* a near call holds the distance from its end to the target in 32 bits
CALL(e, func) ==
    Emit(e, Insn("CALL", 32, NoArg, Imm32(Sub64(func, Add64(e.code, U(5))))))

CALLptr(e, arg) == Emit(e, Insn("CALLptr", 64, NoArg, arg))

-----------------------------------------------------------------------------
(* Stack Adjustment Emitter. *)

ABI_AlignStackAsWithProlog(e, frameSize, noProlog) ==
    LET fillSize == Sub32(ABI_GetAlignedFrameSize(frameSize, FALSE), frameSize)
    IN  IF fillSize # U(0)
        THEN SUB(e, RegSize * 8, R(RSP), Imm8(fillSize))
        ELSE e

ABI_AlignStack(e, frameSize, noProlog) ==
    LET fillSize == Sub32(ABI_GetAlignedFrameSize(frameSize, noProlog), frameSize)
    IN  IF fillSize # U(0)
        THEN SUB(e, RegSize * 8, R(RSP), Imm8(fillSize))
        ELSE e

ABI_RestoreStackFillOnly(e, frameSize, noProlog) ==
    LET fillSize == Sub32(ABI_GetAlignedFrameSize(frameSize, noProlog), frameSize)
    IN  IF fillSize # U(0)
        THEN ADD(e, RegSize * 8, R(RSP), Imm8(fillSize))
        ELSE e

ABI_RestoreStack(e, frameSize, noProlog) ==
    LET alignedSize == ABI_GetAlignedFrameSize(frameSize, noProlog)
    IN  IF alignedSize # U(0)
        THEN ADD(e, RegSize * 8, R(RSP), Imm8(alignedSize))
        ELSE e

-----------------------------------------------------------------------------
(* The machine that executes the emitted instructions. *)

Junk == <<57005, 57005, 57005, 57005>>

\* do the n bytes at a and the size bytes of the cell at c share a byte
Overlap(c, size, a, n) ==
    LET d == Diff(c, a) IN d # Far /\ d < n /\ d > -size

Store(m, a, n, val) ==
    LET keep == {c \in DOMAIN m : ~Overlap(c, m[c].size, a, n)}
    IN  [c \in keep \cup {a} |->
            IF c = a THEN [size |-> n, val |-> val] ELSE m[c]]

Load(m, a, n) ==
    IF a \in DOMAIN m /\ m[a].size = n THEN m[a].val ELSE Junk

\* what is below the stack pointer is lost to whatever runs next
DropBelow(m, sp) ==
    LET keep == {c \in DOMAIN m : ~(Diff(c, sp) # Far /\ Diff(c, sp) < 0)}
    IN  [c \in keep |-> m[c]]

SP == regs[RSP]

\* the value of n bytes of register contents
Sized(val, n) ==
    IF n = 2 THEN <<val[1], 0, 0, 0>> ELSE IF n = 4 THEN Trunc32(val) ELSE val

EffAddr(arg) == Ptr(Add64(regs[arg.r], arg.v))

\* the value an instruction reads from a source operand of n bytes
ReadArg(arg, n) ==
    CASE arg.k = "R" -> Sized(regs[arg.r], n)
      [] arg.k = "M" -> Load(mem, EffAddr(arg), n)
      [] OTHER       -> arg.v

\* the immediate of ADD/SUB, sign-extended to the operand width
SignedImm(arg) ==
    IF arg.k = "I8" THEN SignExtend8(arg.v[1])
    ELSE IF arg.v[2] >= W \div 2 THEN <<arg.v[1], arg.v[2], W - 1, W - 1>>
    ELSE arg.v

Volatile ==
    CASE abi = "Win64"  -> {RAX, RCX, RDX, R8, R9, 10, 11}
      [] abi = "Unix64" -> {RAX, RCX, RDX, RSI, RDI, R8, R9, 10, 11}
      [] OTHER          -> {RAX, RCX, RDX}

\* the shadow space a Win64 callee may write: 32 bytes from the stack pointer
Scribble(m, sp) ==
    IF abi = "Win64"
    THEN Store(Store(m, sp, 16, Junk), Ptr(Add64(sp, U(16))), 16, Junk)
    ELSE m

ExecPUSH(i) ==
    LET n == i.bits \div 8
        val == ReadArg(i.src, n)
        sp == Ptr(Sub64(SP, U(n)))
    IN  /\ regs' = [regs EXCEPT ![RSP] = sp]
        /\ mem' = Store(mem, sp, n, val)
        /\ UNCHANGED xmm

ExecPOP(i) ==
    LET val == Load(mem, SP, RegSize)
        sp == Ptr(Add64(SP, U(RegSize)))
    IN  /\ regs' = [regs EXCEPT ![RSP] = sp, ![i.dst.r] = val]
        /\ UNCHANGED <<mem, xmm>>

ExecMOV(i) ==
    /\ regs' = [regs EXCEPT ![i.dst.r] = ReadArg(i.src, i.bits \div 8)]
    /\ UNCHANGED <<mem, xmm>>

ExecADDSUB(i) ==
    LET imm == SignedImm(i.src)
        r == IF i.op = "ADD" THEN Add64(regs[i.dst.r], imm)
             ELSE Sub64(regs[i.dst.r], imm)
    IN  /\ regs' = [regs EXCEPT ![i.dst.r] = IF i.bits = 64 THEN r ELSE Trunc32(r)]
        /\ UNCHANGED <<mem, xmm>>

ExecMOVAPD(i) ==
    IF i.op = "MOVAPD_ST"
    THEN /\ mem' = Store(mem, EffAddr(i.dst), 16, xmm[i.src.r])
         /\ UNCHANGED <<regs, xmm>>
    ELSE /\ xmm' = [xmm EXCEPT ![i.dst.r] = Load(mem, EffAddr(i.src), 16)]
         /\ UNCHANGED <<regs, mem>>

\* a 16-byte aligned access to an address that is not a multiple of 16 faults
Misaligned(i) ==
    \/ i.op = "MOVAPD_ST" /\ EffAddr(i.dst)[1] % 16 # 0
    \/ i.op = "MOVAPD_LD" /\ EffAddr(i.src)[1] % 16 # 0

\* a 32-bit displacement sign-extended to 64 bits
SignExtend32(a) ==
    IF a[2] >= W \div 2 THEN <<a[1], a[2], W - 1, W - 1>> ELSE Trunc32(a)

\* the address a call instruction transfers control to
CallTarget(i) ==
    IF i.op = "CALL"
    THEN Ptr(Add64(Add64(i.at, U(5)), SignExtend32(i.src.v)))
    ELSE ReadArg(i.src, RegSize)

\* a call and the return from it: the callee pushes nothing it does not pop,
\* leaves its arguments on the stack, and may change the volatile registers,
\* the memory below the stack pointer and, on Win64, the shadow space
ExecCALL(i) ==
    /\ regs' = [r \in 0..15 |-> IF r \in Volatile THEN Junk ELSE regs[r]]
    /\ xmm' = [x \in 0..15 |-> Junk]
    /\ mem' = Scribble(DropBelow(mem, SP), SP)

\* the code between a save and a restore: it may change every register but
\* the stack pointer, and calls native functions
ExecBODY(i) ==
    /\ regs' = [r \in 0..15 |-> IF r = RSP THEN regs[r] ELSE Junk]
    /\ xmm' = [x \in 0..15 |-> Junk]
    /\ mem' = Scribble(DropBelow(mem, SP), SP)

\* the pushes of frameSize bytes of arguments
ExecARGS(i) ==
    /\ regs' = [regs EXCEPT ![RSP] = Ptr(Sub64(SP, i.src.v))]
    /\ mem' = DropBelow(mem, SP)
    /\ UNCHANGED xmm

Step ==
    /\ phase = "run"
    /\ pc <= Len(emitted)
    /\ LET i == emitted[pc]
       IN  IF Misaligned(i)
           THEN /\ phase' = "fault"
                /\ UNCHANGED <<pc, regs, xmm, mem>>
           ELSE /\ phase' = phase
                /\ pc' = pc + 1
                /\ CASE i.op = "PUSH" -> ExecPUSH(i)
                     [] i.op = "POP"  -> ExecPOP(i)
                     [] i.op = "MOV"  -> ExecMOV(i)
                     [] i.op \in {"ADD", "SUB"} -> ExecADDSUB(i)
                     [] i.op \in {"MOVAPD_ST", "MOVAPD_LD"} -> ExecMOVAPD(i)
                     [] i.op \in {"CALL", "CALLptr"} -> ExecCALL(i)
                     [] i.op = "BODY" -> ExecBODY(i)
                     [] OTHER -> ExecARGS(i)
    /\ UNCHANGED <<abi, code, emitted, op, ret, entry>>

Halt ==
    /\ phase = "run"
    /\ pc > Len(emitted)
    /\ phase' = "done"
    /\ UNCHANGED <<abi, code, emitted, op, ret, pc, regs, xmm, mem, entry>>

-----------------------------------------------------------------------------
(* Initial states. *)

NoOp ==
    [name |-> "none", frameSize |-> U(0), noProlog |-> FALSE, mask |-> <<0, 0>>,
     reg1 |-> 0, reg2 |-> 0, func |-> U(0), args |-> <<>>, mark |-> 0]

\* the stack pointer on entry: a 16-byte aligned address plus off
StackTop(a, off) ==
    IF a \in {"Win64", "Unix64"} THEN <<64 + off, W - 1, 32767, 0>>
    ELSE <<64 + off, 49151, 0, 0>>

RegInit(a, r) ==
    IF a \in {"Win64", "Unix64"} THEN <<r + 1, 256 + r, 512 + r, 768 + r>>
    ELSE <<r + 1, 256 + r, 0, 0>>

CodeBase(a) ==
    IF a \in {"Win64", "Unix64"} THEN <<4096, 0, 1, 0>> ELSE <<4096, 2048, 0, 0>>

\* the memory operand handed to ABI_CallFunctionA/AC points here
ArgCell(a) == Add64(RegInit(a, RBX), U(8))

ArgValue == <<4660, 22136, 0, 0>>

Init ==
    /\ abi \in ABIs
    /\ code = CodeBase(abi)
    /\ emitted = <<>>
    /\ phase = "idle"
    /\ op = NoOp
    /\ ret = U(0)
    /\ pc = 1
    /\ \E off \in {0, 8, 12} :
          regs = [r \in 0..15 |-> IF r = RSP THEN StackTop(abi, off) ELSE RegInit(abi, r)]
    /\ xmm = [x \in 0..15 |-> <<x + 1, 1024 + x, 0, 0>>]
    /\ mem = [c \in {ArgCell(abi)} |-> [size |-> 4, val |-> ArgValue]]
    /\ entry = [regs |-> regs, xmm |-> xmm]

E == [code |-> code, buf |-> emitted]

\* an emitter function has run: its instructions are in the buffer
Emitted(e, next, o) ==
    /\ code' = e.code
    /\ emitted' = e.buf
    /\ phase' = next
    /\ op' = o
    /\ UNCHANGED <<abi, pc, regs, xmm, mem, entry>>

-----------------------------------------------------------------------------
(* Stack adjustment around a frame of pushed arguments. *)

FrameSizes ==
    {U(n) : n \in 0..MaxFrameSize} \cup {Neg64(U(n)) : n \in 1..MaxWrap}

FrameSizes32 == {Trunc32(f) : f \in FrameSizes}

DoAlignStack ==
    /\ phase = "idle"
    /\ \E frameSize \in FrameSizes32, noProlog \in BOOLEAN :
          LET e == ABI_AlignStack(E, frameSize, noProlog)
          IN  /\ Emitted(e, "aligned",
                    [NoOp EXCEPT !.name = "AlignStack", !.frameSize = frameSize,
                                 !.noProlog = noProlog, !.mark = Len(e.buf)])
              /\ ret' = ABI_GetAlignedFrameSize(frameSize, noProlog)

\* the caller pushes frameSize bytes of arguments
DoPushFrame ==
    /\ phase = "aligned"
    /\ Emitted(Emit(E, Insn("ARGS", 0, NoArg, Imm32(op.frameSize))), "pushed",
               [op EXCEPT !.name = "AlignPushRestore"])
    /\ UNCHANGED ret

DoRestoreStack ==
    /\ phase \in {"aligned", "pushed"}
    /\ Emitted(ABI_RestoreStack(E, op.frameSize, op.noProlog), "run",
               [op EXCEPT !.name = IF phase = "aligned" THEN "AlignRestore" ELSE @])
    /\ UNCHANGED ret

-----------------------------------------------------------------------------
(* Register Save/Restore Unit. *)

\* mask & (1 << i) for one 16-bit half of the mask
Bit(half, i) == (half \div (2 ^ i)) % 2 = 1

\* mask is <<bits 0..15, bits 16..31>>
GPSelected(mask, r) == Bit(mask[1], r)

XMMSelected(mask, x) == Bit(mask[2], x)

\* n & 0xf of a signed int
And0xf(n) == n % 16

\* the loops write their instructions one after the other: each is given
\* here as the sequence of instructions it writes
RECURSIVE PushLoop(_, _)
PushLoop(mask, r) ==
    IF r >= 16 THEN <<>>
    ELSE (IF GPSelected(mask, r) THEN <<InsnPUSH(r)>> ELSE <<>>) \o PushLoop(mask, r + 1)

RECURSIVE CountLoop(_, _)
CountLoop(mask, r) ==
    IF r >= 16 THEN 0
    ELSE (IF GPSelected(mask, r) THEN 1 ELSE 0) + CountLoop(mask, r + 1)

RECURSIVE SizeLoop(_, _)
SizeLoop(mask, x) ==
    IF x >= 16 THEN 0
    ELSE (IF XMMSelected(mask, x) THEN 16 ELSE 0) + SizeLoop(mask, x + 1)

RECURSIVE StoreLoop(_, _, _)
StoreLoop(mask, x, offset) ==
    IF x >= 16 THEN <<>>
    ELSE IF XMMSelected(mask, x)
         THEN <<InsnMOVAPD_store(MDisp(RSP, offset), x)>> \o StoreLoop(mask, x + 1, offset + 16)
         ELSE StoreLoop(mask, x + 1, offset)

Shadow == IF abi = "Win64" THEN 32 ELSE 0

ABI_PushRegistersNoShadow(e, mask, noProlog) ==
    LET regSize == RegSize
        e1 == EmitSeq(e, PushLoop(mask, 0))
        count == CountLoop(mask, 0)
        size == And0xf((IF noProlog THEN -regSize ELSE 0) - (count * regSize))
                  + SizeLoop(mask, 0)
        e2 == IF size # 0
              THEN SUB(e1, regSize * 8, R(RSP),
                       IF size >= 128 THEN Imm32(U(size)) ELSE Imm8(U(size)))
              ELSE e1
    IN  EmitSeq(e2, StoreLoop(mask, 0, 0))

ABI_PushRegistersStoreAtZero(e, mask, noProlog) ==
    LET regSize == RegSize
        shadow == Shadow
        e1 == EmitSeq(e, PushLoop(mask, 0))
        count == CountLoop(mask, 0)
        size == And0xf((IF noProlog THEN -regSize ELSE 0) - (count * regSize))
                  + SizeLoop(mask, 0) + shadow
        e2 == IF size # 0
              THEN SUB(e1, regSize * 8, R(RSP),
                       IF size >= 128 THEN Imm32(U(size)) ELSE Imm8(U(size)))
              ELSE e1
    IN  EmitSeq(e2, StoreLoop(mask, 0, 0))

ABI_PushRegistersIgnoringProlog(e, mask, noProlog) ==
    LET regSize == RegSize
        shadow == Shadow
        e1 == EmitSeq(e, PushLoop(mask, 0))
        count == CountLoop(mask, 0)
        size == And0xf(0 - (count * regSize)) + SizeLoop(mask, 0) + shadow
        e2 == IF size # 0
              THEN SUB(e1, regSize * 8, R(RSP),
                       IF size >= 128 THEN Imm32(U(size)) ELSE Imm8(U(size)))
              ELSE e1
    IN  EmitSeq(e2, StoreLoop(mask, 0, shadow))

ABI_PushRegistersAndAdjustStack(e, mask, noProlog) ==
    LET regSize == RegSize
        shadow == Shadow
        e1 == EmitSeq(e, PushLoop(mask, 0))
        count == CountLoop(mask, 0)
        size == And0xf((IF noProlog THEN -regSize ELSE 0) - (count * regSize))
                  + SizeLoop(mask, 0) + shadow
        e2 == IF size # 0
              THEN SUB(e1, regSize * 8, R(RSP),
                       IF size >= 128 THEN Imm32(U(size)) ELSE Imm8(U(size)))
              ELSE e1
    IN  EmitSeq(e2, StoreLoop(mask, 0, shadow))

RECURSIVE LoadLoop(_, _, _)
LoadLoop(mask, x, size) ==
    IF x >= 16 THEN <<>>
    ELSE IF XMMSelected(mask, x)
         THEN <<InsnMOVAPD_load(x, MDisp(RSP, size))>> \o LoadLoop(mask, x + 1, size + 16)
         ELSE LoadLoop(mask, x + 1, size)

RECURSIVE PopLoop(_, _)
PopLoop(mask, r) ==
    IF r < 0 THEN <<>>
    ELSE (IF GPSelected(mask, r) THEN <<InsnPOP(r)>> ELSE <<>>) \o PopLoop(mask, r - 1)

RECURSIVE PopLoopAscending(_, _)
PopLoopAscending(mask, r) ==
    IF r >= 16 THEN <<>>
    ELSE (IF GPSelected(mask, r) THEN <<InsnPOP(r)>> ELSE <<>>) \o PopLoopAscending(mask, r + 1)

ABI_PopRegistersAddFirst(e, mask, noProlog) ==
    LET regSize == RegSize
        count == CountLoop(mask, 0)
        size == Shadow + SizeLoop(mask, 0)
                  + And0xf((IF noProlog THEN -regSize ELSE 0) - (count * regSize))
        e1 == IF size # 0
              THEN ADD(e, regSize * 8, R(RSP),
                       IF size >= 128 THEN Imm32(U(size)) ELSE Imm8(U(size)))
              ELSE e
        e2 == EmitSeq(e1, LoadLoop(mask, 0, Shadow))
    IN  EmitSeq(e2, PopLoop(mask, 15))

ABI_PopRegistersAscending(e, mask, noProlog) ==
    LET regSize == RegSize
        e1 == EmitSeq(e, LoadLoop(mask, 0, Shadow))
        count == CountLoop(mask, 0)
        size == Shadow + SizeLoop(mask, 0)
                  + And0xf((IF noProlog THEN -regSize ELSE 0) - (count * regSize))
        e2 == IF size # 0
              THEN ADD(e1, regSize * 8, R(RSP),
                       IF size >= 128 THEN Imm32(U(size)) ELSE Imm8(U(size)))
              ELSE e1
    IN  EmitSeq(e2, PopLoopAscending(mask, 0))

ABI_PopRegistersAndAdjustStack(e, mask, noProlog) ==
    LET regSize == RegSize
        e1 == EmitSeq(e, LoadLoop(mask, 0, Shadow))
        count == CountLoop(mask, 0)
        size == Shadow + SizeLoop(mask, 0)
                  + And0xf((IF noProlog THEN -regSize ELSE 0) - (count * regSize))
        e2 == IF size # 0
              THEN ADD(e1, regSize * 8, R(RSP),
                       IF size >= 128 THEN Imm32(U(size)) ELSE Imm8(U(size)))
              ELSE e1
    IN  EmitSeq(e2, PopLoop(mask, 15))

\* the registers a mask may select: subsets of the first NumGPChoice entries
\* of GPOrder and of the first NumXMMChoice entries of XMMOrder, and the masks
\* that select every general-purpose register, XMM0..XMM7, every vector register
GPOrder == <<RAX, RSP, R15, RBP, RBX, R8, RCX, RDX, RSI, RDI, R9, 10, 11, R12, R13, R14>>

XMMOrder == <<0, 15, 6, 7, 1, 2, 3, 4, 5, 8, 9, 10, 11, 12, 13, 14>>

RECURSIVE BitsOf(_)
BitsOf(S) ==
    IF S = {} THEN 0
    ELSE LET r == CHOOSE r \in S : TRUE IN (2 ^ r) + BitsOf(S \ {r})

Masks ==
    LET gp == {BitsOf(S) : S \in SUBSET {GPOrder[i] : i \in 1..NumGPChoice}}
                \cup {W - 1}
        xm == {BitsOf(S) : S \in SUBSET {XMMOrder[i] : i \in 1..NumXMMChoice}}
                \cup {255, W - 1}
    IN  gp \X xm

DoPushRegisters ==
    /\ phase = "idle"
    /\ \E mask \in Masks, noProlog \in BOOLEAN :
          LET e == ABI_PushRegistersAndAdjustStack(E, mask, noProlog)
          IN  Emitted(e, "saved",
                  [NoOp EXCEPT !.name = "PushPopRegisters", !.mask = mask,
                               !.noProlog = noProlog, !.mark = Len(e.buf)])
    /\ UNCHANGED ret

\* the code that runs between a save and its restore
DoBody ==
    /\ phase \in {"saved", "framed"}
    /\ Emitted(Emit(E, Insn("BODY", 0, NoArg, NoArg)), "body", op)
    /\ UNCHANGED ret

DoPopRegisters ==
    /\ phase \in {"saved", "body"}
    /\ op.name = "PushPopRegisters"
    /\ Emitted(ABI_PopRegistersAndAdjustStack(E, op.mask, op.noProlog), "run", op)
    /\ UNCHANGED ret

-----------------------------------------------------------------------------
(* Call-Site Builder. *)

\* 64-bit: the call itself, near when the target is within reach of a 32-bit
\* displacement from the end of a near call written at the cursor
CallNearOrFarOffByOne(e, func) ==
    LET distance == Sub64(func, Add64(e.code, U(5)))
    IN  IF Lt64(<<0, 32768, 0, 0>>, distance)
           /\ Lt64(distance, <<0, 32768, W - 1, W - 1>>)
        THEN CALLptr(MOV(e, 64, R(RAX), Imm64(func)), R(RAX))
        ELSE CALL(e, func)

CallNearOrFar(e, func) ==
    LET distance == Sub64(func, Add64(e.code, U(5)))
    IN  IF ~Lt64(distance, <<0, 32768, 0, 0>>)
           /\ Lt64(distance, <<0, 32768, W - 1, W - 1>>)
        THEN CALLptr(MOV(e, 64, R(RAX), Imm64(func)), R(RAX))
        ELSE CALL(e, func)

ABI_CallFunction(e, func) ==
    IF M_IX86
    THEN ABI_RestoreStack(CALL(ABI_AlignStack(e, U(0), FALSE), func), U(0), FALSE)
    ELSE ABI_RestoreStack(CallNearOrFar(ABI_AlignStack(e, U(0), FALSE), func), U(0), FALSE)

ABI_CallFunctionC16(e, func, param1) ==
    IF M_IX86
    THEN LET e1 == ABI_AlignStack(e, U(1 * 2), FALSE)
             e2 == PUSHarg(e1, 16, Imm16(param1))
         IN  ABI_RestoreStack(CALL(e2, func), U(1 * 2), FALSE)
    ELSE LET e1 == ABI_AlignStack(e, U(0), FALSE)
             e2 == MOV(e1, 32, R(ABI_PARAM1), Imm32(param1))
         IN  ABI_RestoreStack(CallNearOrFar(e2, func), U(0), FALSE)

ABI_CallFunctionCC16WrongFrame(e, func, param1, param2) ==
    IF M_IX86
    THEN LET e1 == ABI_AlignStack(e, U(2 * 4), FALSE)
             e2 == PUSHarg(e1, 16, Imm16(param2))
             e3 == PUSHarg(e2, 32, Imm32(param1))
         IN  ABI_RestoreStack(CALL(e3, func), U(2 * 4), FALSE)
    ELSE LET e1 == ABI_AlignStack(e, U(0), FALSE)
             e2 == MOV(e1, 32, R(ABI_PARAM1), Imm32(param1))
             e3 == MOV(e2, 32, R(ABI_PARAM2), Imm32(param2))
         IN  ABI_RestoreStack(CallNearOrFar(e3, func), U(0), FALSE)

ABI_CallFunctionCC16(e, func, param1, param2) ==
    IF M_IX86
    THEN LET e1 == ABI_AlignStack(e, U(1 * 2 + 1 * 4), FALSE)
             e2 == PUSHarg(e1, 16, Imm16(param2))
             e3 == PUSHarg(e2, 32, Imm32(param1))
         IN  ABI_RestoreStack(CALL(e3, func), U(1 * 2 + 1 * 4), FALSE)
    ELSE LET e1 == ABI_AlignStack(e, U(0), FALSE)
             e2 == MOV(e1, 32, R(ABI_PARAM1), Imm32(param1))
             e3 == MOV(e2, 32, R(ABI_PARAM2), Imm32(param2))
         IN  ABI_RestoreStack(CallNearOrFar(e3, func), U(0), FALSE)

ABI_CallFunctionC(e, func, param1) ==
    IF M_IX86
    THEN LET e1 == ABI_AlignStack(e, U(1 * 4), FALSE)
             e2 == PUSHarg(e1, 32, Imm32(param1))
         IN  ABI_RestoreStack(CALL(e2, func), U(1 * 4), FALSE)
    ELSE LET e1 == ABI_AlignStack(e, U(0), FALSE)
             e2 == MOV(e1, 32, R(ABI_PARAM1), Imm32(param1))
         IN  ABI_RestoreStack(CallNearOrFar(e2, func), U(0), FALSE)

ABI_CallFunctionCCEarlyDistance(e, func, param1, param2) ==
    IF M_IX86
    THEN LET e1 == ABI_AlignStack(e, U(2 * 4), FALSE)
             e2 == PUSHarg(e1, 32, Imm32(param2))
             e3 == PUSHarg(e2, 32, Imm32(param1))
         IN  ABI_RestoreStack(CALL(e3, func), U(2 * 4), FALSE)
    ELSE LET e1 == ABI_AlignStack(e, U(0), FALSE)
             distance == Sub64(func, Add64(e1.code, U(5)))
             e2 == MOV(e1, 32, R(ABI_PARAM1), Imm32(param1))
             e3 == MOV(e2, 32, R(ABI_PARAM2), Imm32(param2))
             e4 == IF ~Lt64(distance, <<0, 32768, 0, 0>>)
                      /\ Lt64(distance, <<0, 32768, W - 1, W - 1>>)
                   THEN CALLptr(MOV(e3, 64, R(RAX), Imm64(func)), R(RAX))
                   ELSE CALL(e3, func)
         IN  ABI_RestoreStack(e4, U(0), FALSE)

ABI_CallFunctionCC(e, func, param1, param2) ==
    IF M_IX86
    THEN LET e1 == ABI_AlignStack(e, U(2 * 4), FALSE)
             e2 == PUSHarg(e1, 32, Imm32(param2))
             e3 == PUSHarg(e2, 32, Imm32(param1))
         IN  ABI_RestoreStack(CALL(e3, func), U(2 * 4), FALSE)
    ELSE LET e1 == ABI_AlignStack(e, U(0), FALSE)
             e2 == MOV(e1, 32, R(ABI_PARAM1), Imm32(param1))
             e3 == MOV(e2, 32, R(ABI_PARAM2), Imm32(param2))
         IN  ABI_RestoreStack(CallNearOrFar(e3, func), U(0), FALSE)

ABI_CallFunctionCCC(e, func, param1, param2, param3) ==
    IF M_IX86
    THEN LET e1 == ABI_AlignStack(e, U(3 * 4), FALSE)
             e2 == PUSHarg(e1, 32, Imm32(param3))
             e3 == PUSHarg(e2, 32, Imm32(param2))
             e4 == PUSHarg(e3, 32, Imm32(param1))
         IN  ABI_RestoreStack(CALL(e4, func), U(3 * 4), FALSE)
    ELSE LET e1 == ABI_AlignStack(e, U(0), FALSE)
             e2 == MOV(e1, 32, R(ABI_PARAM1), Imm32(param1))
             e3 == MOV(e2, 32, R(ABI_PARAM2), Imm32(param2))
             e4 == MOV(e3, 32, R(ABI_PARAM3), Imm32(param3))
         IN  ABI_RestoreStack(CallNearOrFar(e4, func), U(0), FALSE)

ABI_CallFunctionCCP(e, func, param1, param2, param3) ==
    IF M_IX86
    THEN LET e1 == ABI_AlignStack(e, U(3 * 4), FALSE)
             e2 == PUSHarg(e1, 32, Imm32(param3))
             e3 == PUSHarg(e2, 32, Imm32(param2))
             e4 == PUSHarg(e3, 32, Imm32(param1))
         IN  ABI_RestoreStack(CALL(e4, func), U(3 * 4), FALSE)
    ELSE LET e1 == ABI_AlignStack(e, U(0), FALSE)
             e2 == MOV(e1, 32, R(ABI_PARAM1), Imm32(param1))
             e3 == MOV(e2, 32, R(ABI_PARAM2), Imm32(param2))
             e4 == MOV(e3, 64, R(ABI_PARAM3), Imm64(param3))
         IN  ABI_RestoreStack(CallNearOrFar(e4, func), U(0), FALSE)

ABI_CallFunctionCCCP(e, func, param1, param2, param3, param4) ==
    IF M_IX86
    THEN LET e1 == ABI_AlignStack(e, U(4 * 4), FALSE)
             e2 == PUSHarg(e1, 32, Imm32(param4))
             e3 == PUSHarg(e2, 32, Imm32(param3))
             e4 == PUSHarg(e3, 32, Imm32(param2))
             e5 == PUSHarg(e4, 32, Imm32(param1))
         IN  ABI_RestoreStack(CALL(e5, func), U(4 * 4), FALSE)
    ELSE LET e1 == ABI_AlignStack(e, U(0), FALSE)
             e2 == MOV(e1, 32, R(ABI_PARAM1), Imm32(param1))
             e3 == MOV(e2, 32, R(ABI_PARAM2), Imm32(param2))
             e4 == MOV(e3, 32, R(ABI_PARAM3), Imm32(param3))
             e5 == MOV(e4, 64, R(ABI_PARAM4), Imm64(param4))
         IN  ABI_RestoreStack(CallNearOrFar(e5, func), U(0), FALSE)

ABI_CallFunctionPPC(e, func, param1, param2, param3) ==
    IF M_IX86
    THEN LET e1 == ABI_AlignStack(e, U(3 * 4), FALSE)
             e2 == PUSHarg(e1, 32, Imm32(param3))
             e3 == PUSHarg(e2, 32, Imm32(param2))
             e4 == PUSHarg(e3, 32, Imm32(param1))
         IN  ABI_RestoreStack(CALL(e4, func), U(3 * 4), FALSE)
    ELSE LET e1 == ABI_AlignStack(e, U(0), FALSE)
             e2 == MOV(e1, 64, R(ABI_PARAM1), Imm64(param1))
             e3 == MOV(e2, 64, R(ABI_PARAM2), Imm64(param2))
             e4 == MOV(e3, 32, R(ABI_PARAM3), Imm32(param3))
         IN  ABI_RestoreStack(CallNearOrFar(e4, func), U(0), FALSE)

ABI_CallFunctionR(e, func, reg1) ==
    IF M_IX86
    THEN LET e1 == ABI_AlignStack(e, U(1 * 4), FALSE)
             e2 == PUSHarg(e1, 32, R(reg1))
         IN  ABI_RestoreStack(CALL(e2, func), U(1 * 4), FALSE)
    ELSE LET e1 == ABI_AlignStack(e, U(0), FALSE)
             e2 == IF reg1 # ABI_PARAM1 THEN MOV(e1, 32, R(ABI_PARAM1), R(reg1)) ELSE e1
         IN  ABI_RestoreStack(CallNearOrFar(e2, func), U(0), FALSE)

ABI_CallFunctionRR(e, func, reg1, reg2, noProlog) ==
    IF M_IX86
    THEN LET e1 == ABI_AlignStack(e, U(2 * 4), noProlog)
             e2 == PUSHarg(e1, 32, R(reg2))
             e3 == PUSHarg(e2, 32, R(reg1))
         IN  ABI_RestoreStack(CALL(e3, func), U(2 * 4), noProlog)
    ELSE LET e1 == ABI_AlignStack(e, U(0), noProlog)
             e3 == IF reg2 # ABI_PARAM1
                   THEN LET e2 == IF reg1 # ABI_PARAM1
                                  THEN MOV(e1, 64, R(ABI_PARAM1), R(reg1)) ELSE e1
                        IN  IF reg2 # ABI_PARAM2
                            THEN MOV(e2, 64, R(ABI_PARAM2), R(reg2)) ELSE e2
                   ELSE LET e2 == IF reg2 # ABI_PARAM2
                                  THEN MOV(e1, 64, R(ABI_PARAM2), R(reg2)) ELSE e1
                        IN  IF reg1 # ABI_PARAM1
                            THEN MOV(e2, 64, R(ABI_PARAM1), R(reg1)) ELSE e2
         IN  ABI_RestoreStack(CallNearOrFar(e3, func), U(0), noProlog)

IsSimpleReg(arg, reg) == arg.k = "R" /\ arg.r = reg

ABI_CallFunctionAC(e, func, arg1, param2) ==
    IF M_IX86
    THEN LET e1 == ABI_AlignStack(e, U(2 * 4), FALSE)
             e2 == PUSHarg(e1, 32, Imm32(param2))
             e3 == PUSHarg(e2, 32, arg1)
         IN  ABI_RestoreStack(CALL(e3, func), U(2 * 4), FALSE)
    ELSE LET e1 == ABI_AlignStack(e, U(0), FALSE)
             e2 == IF ~IsSimpleReg(arg1, ABI_PARAM1)
                   THEN MOV(e1, 32, R(ABI_PARAM1), arg1) ELSE e1
             e3 == MOV(e2, 32, R(ABI_PARAM2), Imm32(param2))
         IN  ABI_RestoreStack(CallNearOrFar(e3, func), U(0), FALSE)

ABI_CallFunctionA(e, func, arg1) ==
    IF M_IX86
    THEN LET e1 == ABI_AlignStack(e, U(1 * 4), FALSE)
             e2 == PUSHarg(e1, 32, arg1)
         IN  ABI_RestoreStack(CALL(e2, func), U(1 * 4), FALSE)
    ELSE LET e1 == ABI_AlignStack(e, U(0), FALSE)
             e2 == IF ~IsSimpleReg(arg1, ABI_PARAM1)
                   THEN MOV(e1, 32, R(ABI_PARAM1), arg1) ELSE e1
         IN  ABI_RestoreStack(CallNearOrFar(e2, func), U(0), FALSE)

\* the arguments handed to the call builders
Trunc16(a) == <<a[1], 0, 0, 0>>

\* u32 values of param1..param3
Params32 == {<<U(10), U(20), U(30)>>,
             <<<<W - 1, W - 1, 0, 0>>, <<0, 32768, 0, 0>>, <<W - 1, 0, 0, 0>>>>}

\* pointer values
Pointers ==
    IF M_X64 THEN <<<<4369, 8738, 13107, 68>>, <<1, 0, 32768, 0>>>>
    ELSE <<<<4369, 8738, 0, 0>>, <<1, 32768, 0, 0>>>>

RegOrder ==
    <<ABI_PARAM1, ABI_PARAM2, RAX, RSP, RBX, R12>>
      \o SelectSeq(<<RCX, RDX, RBP, RSI, RDI, R8, R9, 10, 11, R13, R14, R15>>,
                   LAMBDA r : r \notin {ABI_PARAM1, ABI_PARAM2})

RegChoices == {RegOrder[i] : i \in 1..NumRegChoice}

ArgChoices == {R(r) : r \in RegChoices} \cup {MDisp(RBX, 8), Imm32(U(77))}

\* the address at which the call (or the load of the far target) is written
RECURSIVE CallIndex(_, _)
CallIndex(buf, i) ==
    IF i > Len(buf) THEN 0
    ELSE IF buf[i].op = "CALL" THEN i
    ELSE IF buf[i].op = "CALLptr" THEN i - 1
    ELSE CallIndex(buf, i + 1)

\* call targets: at chosen distances from the end of a near call written
\* where this call is written (probe is the same call to any target)
Distances ==
    IF M_X64
    THEN {U(0), <<W - 1, 32767, 0, 0>>, <<0, 32768, 0, 0>>,
          <<0, 32768, W - 1, W - 1>>, <<W - 1, 32767, W - 1, W - 1>>,
          <<0, 0, 16384, 0>>}
    ELSE {<<0, 256, 0, 0>>}

Targets(probe) ==
    LET site == probe.buf[CallIndex(probe.buf, 1)].at
    IN  {Add64(Add64(site, U(5)), d) : d \in Distances}

\* the value of an argument on entry, in size bytes
Arg(size, val) == [size |-> size, val |-> Sized(val, size)]

PtrArg(val) == Arg(RegSize, val)

Called(e, name, func, args) ==
    /\ Emitted(e, "run", [NoOp EXCEPT !.name = name, !.func = func, !.args = args,
                                      !.mark = Len(e.buf)])
    /\ UNCHANGED ret

DoCallFunction ==
    /\ phase = "idle"
    /\ \E func \in Targets(ABI_CallFunction(E, U(0))) :
          Called(ABI_CallFunction(E, func), "CallFunction", func, <<>>)

DoCallFunctionC16 ==
    /\ phase = "idle"
    /\ \E p \in Params32 :
       \E func \in Targets(ABI_CallFunctionC16(E, U(0), Trunc16(p[1]))) :
          Called(ABI_CallFunctionC16(E, func, Trunc16(p[1])), "CallFunctionC16", func,
                 <<Arg(2, p[1])>>)

DoCallFunctionCC16 ==
    /\ phase = "idle"
    /\ \E p \in Params32 :
       \E func \in Targets(ABI_CallFunctionCC16(E, U(0), p[1], Trunc16(p[2]))) :
          Called(ABI_CallFunctionCC16(E, func, p[1], Trunc16(p[2])), "CallFunctionCC16",
                 func, <<Arg(4, p[1]), Arg(2, p[2])>>)

DoCallFunctionC ==
    /\ phase = "idle"
    /\ \E p \in Params32 :
       \E func \in Targets(ABI_CallFunctionC(E, U(0), p[1])) :
          Called(ABI_CallFunctionC(E, func, p[1]), "CallFunctionC", func,
                 <<Arg(4, p[1])>>)

DoCallFunctionCC ==
    /\ phase = "idle"
    /\ \E p \in Params32 :
       \E func \in Targets(ABI_CallFunctionCC(E, U(0), p[1], p[2])) :
          Called(ABI_CallFunctionCC(E, func, p[1], p[2]), "CallFunctionCC", func,
                 <<Arg(4, p[1]), Arg(4, p[2])>>)

DoCallFunctionCCC ==
    /\ phase = "idle"
    /\ \E p \in Params32 :
       \E func \in Targets(ABI_CallFunctionCCC(E, U(0), p[1], p[2], p[3])) :
          Called(ABI_CallFunctionCCC(E, func, p[1], p[2], p[3]), "CallFunctionCCC", func,
                 <<Arg(4, p[1]), Arg(4, p[2]), Arg(4, p[3])>>)

DoCallFunctionCCP ==
    /\ phase = "idle"
    /\ \E p \in Params32, q \in {1, 2} :
       \E func \in Targets(ABI_CallFunctionCCP(E, U(0), p[1], p[2], Pointers[q])) :
          Called(ABI_CallFunctionCCP(E, func, p[1], p[2], Pointers[q]), "CallFunctionCCP",
                 func, <<Arg(4, p[1]), Arg(4, p[2]), PtrArg(Pointers[q])>>)

DoCallFunctionCCCP ==
    /\ phase = "idle"
    /\ \E p \in Params32, q \in {1, 2} :
       \E func \in Targets(ABI_CallFunctionCCCP(E, U(0), p[1], p[2], p[3], Pointers[q])) :
          Called(ABI_CallFunctionCCCP(E, func, p[1], p[2], p[3], Pointers[q]),
                 "CallFunctionCCCP", func,
                 <<Arg(4, p[1]), Arg(4, p[2]), Arg(4, p[3]), PtrArg(Pointers[q])>>)

DoCallFunctionPPC ==
    /\ phase = "idle"
    /\ \E p \in Params32, q \in {1, 2} :
       \E func \in Targets(ABI_CallFunctionPPC(E, U(0), Pointers[q], Pointers[3 - q], p[3])) :
          Called(ABI_CallFunctionPPC(E, func, Pointers[q], Pointers[3 - q], p[3]),
                 "CallFunctionPPC", func,
                 <<PtrArg(Pointers[q]), PtrArg(Pointers[3 - q]), Arg(4, p[3])>>)

DoCallFunctionR ==
    /\ phase = "idle"
    /\ \E reg1 \in RegChoices :
       \E func \in Targets(ABI_CallFunctionR(E, U(0), reg1)) :
          /\ Emitted(ABI_CallFunctionR(E, func, reg1), "run",
                [NoOp EXCEPT !.name = "CallFunctionR", !.func = func, !.reg1 = reg1,
                             !.args = <<Arg(4, regs[reg1])>>])
          /\ UNCHANGED ret

DoCallFunctionRR ==
    /\ phase = "idle"
    /\ \E reg1 \in RegChoices, reg2 \in RegChoices, noProlog \in BOOLEAN :
       \E func \in Targets(ABI_CallFunctionRR(E, U(0), reg1, reg2, noProlog)) :
          /\ Emitted(ABI_CallFunctionRR(E, func, reg1, reg2, noProlog), "run",
                [NoOp EXCEPT !.name = "CallFunctionRR", !.func = func, !.reg1 = reg1,
                             !.reg2 = reg2, !.noProlog = noProlog,
                             !.args = <<Arg(RegSize, regs[reg1]), Arg(RegSize, regs[reg2])>>])
          /\ UNCHANGED ret

DoCallFunctionAC ==
    /\ phase = "idle"
    /\ \E arg1 \in ArgChoices, p \in Params32 :
       \E func \in Targets(ABI_CallFunctionAC(E, U(0), arg1, p[2])) :
          /\ Emitted(ABI_CallFunctionAC(E, func, arg1, p[2]), "run",
                [NoOp EXCEPT !.name = "CallFunctionAC", !.func = func, !.reg1 = arg1.r,
                             !.args = <<Arg(4, ReadArg(arg1, 4)), Arg(4, p[2])>>])
          /\ UNCHANGED ret

DoCallFunctionA ==
    /\ phase = "idle"
    /\ \E arg1 \in ArgChoices :
       \E func \in Targets(ABI_CallFunctionA(E, U(0), arg1)) :
          /\ Emitted(ABI_CallFunctionA(E, func, arg1), "run",
                [NoOp EXCEPT !.name = "CallFunctionA", !.func = func, !.reg1 = arg1.r,
                             !.args = <<Arg(4, ReadArg(arg1, 4))>>])
          /\ UNCHANGED ret

-----------------------------------------------------------------------------
(* Callee-Saved Frame Unit. *)

ABI_PushAllCalleeSavedRegsShadowOnly(e) ==
    CASE M_IX86 ->
           EmitSeq(e, <<InsnPUSH(RBP), Insn("MOV", 32, R(RBP), R(RSP)),
                        InsnPUSH(RBX), InsnPUSH(RSI), InsnPUSH(RDI),
                        Insn("SUB", 32, R(RSP), Imm8(U(12)))>>)
      [] abi = "Win64" ->
           EmitSeq(e, <<InsnPUSH(RBP), Insn("MOV", 64, R(RBP), R(RSP)),
                        InsnPUSH(RBX), InsnPUSH(RSI), InsnPUSH(RDI),
                        InsnPUSH(R12), InsnPUSH(R13), InsnPUSH(R14), InsnPUSH(R15),
                        Insn("SUB", 64, R(RSP), Imm8(U(32)))>>)
      [] OTHER ->
           EmitSeq(e, <<InsnPUSH(RBP), Insn("MOV", 64, R(RBP), R(RSP)),
                        InsnPUSH(RBX),
                        InsnPUSH(R12), InsnPUSH(R13), InsnPUSH(R14), InsnPUSH(R15),
                        Insn("SUB", 64, R(RSP), Imm8(U(8)))>>)

ABI_PushAllCalleeSavedRegsAndAdjustStack(e) ==
    CASE M_IX86 ->
           EmitSeq(e, <<InsnPUSH(RBP), Insn("MOV", 32, R(RBP), R(RSP)),
                        InsnPUSH(RBX), InsnPUSH(RSI), InsnPUSH(RDI),
                        Insn("SUB", 32, R(RSP), Imm8(U(12)))>>)
      [] abi = "Win64" ->
           EmitSeq(e, <<InsnPUSH(RBP), Insn("MOV", 64, R(RBP), R(RSP)),
                        InsnPUSH(RBX), InsnPUSH(RSI), InsnPUSH(RDI),
                        InsnPUSH(R12), InsnPUSH(R13), InsnPUSH(R14), InsnPUSH(R15),
                        Insn("SUB", 64, R(RSP), Imm8(U(40)))>>)
      [] OTHER ->
           EmitSeq(e, <<InsnPUSH(RBP), Insn("MOV", 64, R(RBP), R(RSP)),
                        InsnPUSH(RBX),
                        InsnPUSH(R12), InsnPUSH(R13), InsnPUSH(R14), InsnPUSH(R15),
                        Insn("SUB", 64, R(RSP), Imm8(U(8)))>>)

ABI_PopAllCalleeSavedRegsNoAdjust(e) ==
    CASE M_IX86 ->
           EmitSeq(e, <<InsnPOP(RDI), InsnPOP(RSI), InsnPOP(RBX), InsnPOP(RBP)>>)
      [] abi = "Win64" ->
           EmitSeq(e, <<InsnPOP(R15), InsnPOP(R14), InsnPOP(R13), InsnPOP(R12),
                        InsnPOP(RDI), InsnPOP(RSI), InsnPOP(RBX), InsnPOP(RBP)>>)
      [] OTHER ->
           EmitSeq(e, <<InsnPOP(R15), InsnPOP(R14), InsnPOP(R13), InsnPOP(R12),
                        InsnPOP(RBX), InsnPOP(RBP)>>)

ABI_PopAllCalleeSavedRegsAndAdjustStack(e) ==
    CASE M_IX86 ->
           EmitSeq(e, <<Insn("ADD", 32, R(RSP), Imm8(U(12))),
                        InsnPOP(RDI), InsnPOP(RSI), InsnPOP(RBX), InsnPOP(RBP)>>)
      [] abi = "Win64" ->
           EmitSeq(e, <<Insn("ADD", 64, R(RSP), Imm8(U(40))),
                        InsnPOP(R15), InsnPOP(R14), InsnPOP(R13), InsnPOP(R12),
                        InsnPOP(RDI), InsnPOP(RSI), InsnPOP(RBX), InsnPOP(RBP)>>)
      [] OTHER ->
           EmitSeq(e, <<Insn("ADD", 64, R(RSP), Imm8(U(8))),
                        InsnPOP(R15), InsnPOP(R14), InsnPOP(R13), InsnPOP(R12),
                        InsnPOP(RBX), InsnPOP(RBP)>>)

DoPushAllCalleeSavedRegs ==
    /\ phase = "idle"
    /\ LET e == ABI_PushAllCalleeSavedRegsAndAdjustStack(E)
       IN  Emitted(e, "framed", [NoOp EXCEPT !.name = "PushPopAll", !.mark = Len(e.buf)])
    /\ UNCHANGED ret

DoPopAllCalleeSavedRegs ==
    /\ phase \in {"framed", "body"}
    /\ op.name = "PushPopAll"
    /\ Emitted(ABI_PopAllCalleeSavedRegsAndAdjustStack(E), "run", op)
    /\ UNCHANGED ret

-----------------------------------------------------------------------------
(* Call sites inside a frame and after a register save. *)

\* a call-site builder for a function of n arguments
CallWithArgs(e, n, func) ==
    CASE n = 0 -> ABI_CallFunction(e, func)
      [] n = 2 -> ABI_CallFunctionCC(e, func, U(10), U(20))
      [] OTHER -> ABI_CallFunctionCCCP(e, func, U(10), U(20), U(30), Pointers[1])

CallArgs(n) ==
    SubSeq(<<Arg(4, U(10)), Arg(4, U(20)), Arg(4, U(30)), PtrArg(Pointers[1])>>, 1,
           IF n = 4 THEN 4 ELSE n)

\* a target in reach of a near call written shortly after the cursor and,
\* on 64-bit targets, one out of reach
NearAndFar(e) ==
    {Add64(e.code, U(256))}
      \cup IF M_X64 THEN {Add64(e.code, <<0, 0, 16384, 0>>)} ELSE {}

\* the masks saved around a call: no register, one and every register of
\* each kind (XMM0..XMM7 for the vector registers)
CallMasks == {0, 2 ^ R15, W - 1} \X {0, 1, 255}

\* a call site after a save and before its restore: inside the frame of
\* ABI_PushAllCalleeSavedRegsAndAdjustStack (all), or directly after
\* ABI_PushRegistersAndAdjustStack; e1, e2 and e3 are the emitter after the
\* save, the call site and the restore
DoCallAfterSave ==
    /\ phase = "idle"
    /\ \E all \in BOOLEAN, n \in {0, 2, 4}, mask \in CallMasks, noProlog \in BOOLEAN :
       /\ all => (mask = <<0, 0>> /\ ~noProlog)
       /\ \E e1 \in {IF all THEN ABI_PushAllCalleeSavedRegsAndAdjustStack(E)
                     ELSE ABI_PushRegistersAndAdjustStack(E, mask, noProlog)} :
          \E func \in NearAndFar(e1) :
          \E e2 \in {CallWithArgs(e1, n, func)} :
          \E e3 \in {IF all THEN ABI_PopAllCalleeSavedRegsAndAdjustStack(e2)
                     ELSE ABI_PopRegistersAndAdjustStack(e2, mask, noProlog)} :
             Emitted(e3, "run",
                 [NoOp EXCEPT !.name = IF all THEN "CallInFrame" ELSE "CallAfterSave",
                              !.func = func, !.mask = mask, !.noProlog = noProlog,
                              !.args = CallArgs(n), !.mark = Len(e1.buf)])
    /\ UNCHANGED ret

-----------------------------------------------------------------------------

Next ==
    \/ DoAlignStack
    \/ DoPushFrame
    \/ DoRestoreStack
    \/ DoPushRegisters
    \/ DoBody
    \/ DoPopRegisters
    \/ DoCallFunction
    \/ DoCallFunctionC16
    \/ DoCallFunctionCC16
    \/ DoCallFunctionC
    \/ DoCallFunctionCC
    \/ DoCallFunctionCCC
    \/ DoCallFunctionCCP
    \/ DoCallFunctionCCCP
    \/ DoCallFunctionPPC
    \/ DoCallFunctionR
    \/ DoCallFunctionRR
    \/ DoCallFunctionAC
    \/ DoCallFunctionA
    \/ DoPushAllCalleeSavedRegs
    \/ DoPopAllCalleeSavedRegs
    \/ DoCallAfterSave
    \/ Step
    \/ Halt

Spec == Init /\ [][Next]_vars

-----------------------------------------------------------------------------
(* Properties. *)

EntrySP == entry.regs[RSP]

FrameOps == {"AlignStack", "AlignRestore", "AlignPushRestore"}

\* the alignment the ABI requires of the stack pointer at a call
Alignment == IF abi = "Win32" THEN 4 ELSE 16

\* the stack pointer on entry is where the ABI puts it: aligned when a
\* prolog has run, one return address below a multiple of 16 when none has
EntryAligned ==
    IF op.noProlog THEN (EntrySP[1] + RegSize) % 16 = 0
    ELSE EntrySP[1] % Alignment = 0

\* C8: ABI_GetAlignedFrameSize is idempotent: applied to the value it
\* returned, with the same noProlog, it returns that value again, on every
\* ABI and for every frame size, those that wrap modulo 2^32 included.
C8_AlignedFrameSizeIdempotent ==
    op.name \in FrameOps =>
        ABI_GetAlignedFrameSize(ret, op.noProlog) = ret

\* the subtraction of 12 from a frame size of 4 has wrapped
C8_Witness ==
    /\ phase = "aligned" /\ abi = "Unix32" /\ op.noProlog
    /\ op.frameSize = U(4) /\ ret = U(12)

\* C9 as stated: on Win64 with frameSize = 0, ABI_GetAlignedFrameSize returns
\* 32 when noProlog is true and 0 when it is false.
C9_Win64NoPrologReturns32 ==
    (abi = "Win64" /\ op.name \in FrameOps /\ op.frameSize = U(0)) =>
        ret = IF op.noProlog THEN U(32) ELSE U(0)

\* C9 as amended: on Win64 with frameSize = 0, ABI_GetAlignedFrameSize returns
\* 40 (0x28: the 32 bytes of shadow space and the 8 bytes that realign the
\* stack) when noProlog is true and 0 when it is false.
C9_Win64NoPrologReturns40 ==
    (abi = "Win64" /\ op.name \in FrameOps /\ op.frameSize = U(0)) =>
        ret = IF op.noProlog THEN U(40) ELSE U(0)

C9_Witness ==
    /\ phase = "aligned" /\ abi = "Win64" /\ op.noProlog
    /\ op.frameSize = U(0) /\ ret = U(40)

\* the immediates of the two adjustments hold the amounts unchanged: the
\* aligned size is below 128, and on 64-bit targets the frame size is 0 as
\* the calculator expects
AdjustmentsEncodable ==
    /\ ret[2] = 0 /\ ret[1] < 128
    /\ M_X64 => op.frameSize = U(0)

\* C10 as stated: ABI_RestoreStack adds what ABI_AlignStack subtracted, so
\* ABI_AlignStack immediately followed by ABI_RestoreStack leaves the stack
\* pointer unchanged.
C10_AlignThenRestoreIsNoOp ==
    (phase = "done" /\ op.name = "AlignRestore") => SP = EntrySP

\* C10 as amended: ABI_RestoreStack adds ABI_GetAlignedFrameSize(frameSize,
\* noProlog), which is what ABI_AlignStack subtracted plus frameSize, and
\* emits no instruction exactly when that aligned size is zero; so
\* ABI_AlignStack, then frameSize bytes of pushes, then ABI_RestoreStack
\* leave the stack pointer unchanged, and without the pushes they leave it
\* frameSize bytes above where it was.
C10_RestoreAddsAlignedSize ==
    /\ (phase \in {"run", "done"} /\ op.name \in {"AlignRestore", "AlignPushRestore"}) =>
          LET n == Len(emitted) - op.mark - (IF op.name = "AlignPushRestore" THEN 1 ELSE 0)
          IN  n = (IF ret = U(0) THEN 0 ELSE 1)
    /\ (phase = "done" /\ op.name = "AlignPushRestore" /\ AdjustmentsEncodable) =>
          SP = EntrySP
    /\ (phase = "done" /\ op.name = "AlignRestore" /\ AdjustmentsEncodable) =>
          SP = Ptr(Add64(EntrySP, op.frameSize))

C10_Witness ==
    /\ phase = "done" /\ op.name = "AlignPushRestore" /\ abi = "Unix32"
    /\ op.frameSize = U(8) /\ ~op.noProlog
    /\ Len(emitted) = 3 /\ SP = EntrySP

\* C1: the instructions of ABI_PushRegistersAndAdjustStack(M, noProlog)
\* followed by those of ABI_PopRegistersAndAdjustStack(M, noProlog) leave the
\* stack pointer at its value on entry and every selected general-purpose
\* and vector register with the value it had on entry, whatever ran between.
C1_PushPopRoundTrip ==
    /\ (phase = "done" /\ op.name = "PushPopRegisters") =>
          /\ SP = EntrySP
          /\ \A r \in 0..15 : GPSelected(op.mask, r) => regs[r] = entry.regs[r]
          /\ \A x \in 0..15 : XMMSelected(op.mask, x) => xmm[x] = entry.xmm[x]
    /\ (op.name = "PushPopRegisters"
          /\ (EntrySP[1] + (IF op.noProlog THEN RegSize ELSE 0)) % 16 = 0) =>
          phase # "fault"

\* Win64, the stack pointer among three pushed registers, two vector
\* registers, and code between the save and the restore that changed them
C1_Witness ==
    /\ phase = "done" /\ op.name = "PushPopRegisters" /\ abi = "Win64"
    /\ op.noProlog /\ op.mask = <<1 + 16 + 32768, 1 + 32768>>
    /\ Len(emitted) = 2 * op.mark + 1
    /\ regs[RBX] = Junk /\ regs[R15] = entry.regs[R15]
    /\ xmm[15] = entry.xmm[15] /\ xmm[1] = Junk

CallOps ==
    {"CallFunction", "CallFunctionC16", "CallFunctionCC16", "CallFunctionC",
     "CallFunctionCC", "CallFunctionCCC", "CallFunctionCCP", "CallFunctionCCCP",
     "CallFunctionPPC", "CallFunctionR", "CallFunctionRR", "CallFunctionAC",
     "CallFunctionA"}

\* the next instruction to execute is the call of a call-site builder
AtCall ==
    /\ phase = "run" /\ op.name \in CallOps
    /\ pc <= Len(emitted) /\ emitted[pc].op \in {"CALL", "CALLptr"}

\* the stack pointer is not among the argument registers (a builder that has
\* adjusted or pushed reads the stack pointer it has moved)
NoStackPointerArg == RSP \notin {op.reg1, op.reg2}

\* C2 as stated (for source registers other than the stack pointer): on
\* 64-bit targets, at the call emitted by ABI_CallFunctionRR, ABI_PARAM1 holds
\* the value reg1 had on entry and ABI_PARAM2 the value reg2 had on entry,
\* for every pair reg1, reg2, reg1 = ABI_PARAM2 with reg2 = ABI_PARAM1 included.
C2_SourcesReadBeforeOverwritten ==
    (AtCall /\ M_X64 /\ op.name = "CallFunctionRR" /\ NoStackPointerArg) =>
        /\ regs[ABI_PARAM1] = entry.regs[op.reg1]
        /\ regs[ABI_PARAM2] = entry.regs[op.reg2]

\* C3: for every ABI_CallFunction* variant on every ABI, when the stack
\* pointer on entry is where the ABI puts it (EntryAligned), the stack
\* pointer at the emitted call instruction is a multiple of the alignment the
\* ABI requires: 16, or 4 on 32-bit Windows.
C3_StackAlignedAtCall ==
    (AtCall /\ EntryAligned) => SP[1] % Alignment = 0

\* no prolog on a 32-bit non-Windows target: 4 bytes of fill and 8 of
\* arguments bring the stack pointer from 12 mod 16 to a multiple of 16
C3_Witness ==
    /\ AtCall /\ abi = "Unix32" /\ op.name = "CallFunctionRR" /\ op.noProlog
    /\ EntrySP[1] % 16 = 12 /\ SP[1] % 16 = 0
    /\ Diff(EntrySP, SP) = 12

\* the i-th argument register
ParamReg(i) ==
    CASE i = 1 -> ABI_PARAM1 [] i = 2 -> ABI_PARAM2 [] i = 3 -> ABI_PARAM3
      [] OTHER -> ABI_PARAM4

\* the bytes the arguments before the i-th take on the stack
RECURSIVE ArgOffset(_, _)
ArgOffset(args, i) ==
    IF i <= 1 THEN 0 ELSE args[i - 1].size + ArgOffset(args, i - 1)

\* C4 as stated (for argument registers other than the stack pointer): at the
\* call of every ABI_CallFunction* variant the arguments are placed in
\* declaration order: on 32-bit targets they lie on the stack from the stack
\* pointer upwards, the first declared argument at the lowest address; on
\* 64-bit targets the i-th declared argument is in the i-th argument register.
C4_ArgumentsInDeclarationOrder ==
    (AtCall /\ NoStackPointerArg) =>
        \A i \in 1..Len(op.args) :
            IF M_IX86
            THEN Load(mem, Ptr(Add64(SP, U(ArgOffset(op.args, i)))), op.args[i].size)
                    = op.args[i].val
            ELSE Sized(regs[ParamReg(i)], op.args[i].size) = op.args[i].val

\* a distance that fits a signed 32-bit displacement
FitsSigned32(d) ==
    \/ d[4] = 0 /\ d[3] = 0 /\ d[2] < W \div 2
    \/ d[4] = W - 1 /\ d[3] = W - 1 /\ d[2] >= W \div 2

\* target - (currentEmitAddress + 5) modulo 2^64, where currentEmitAddress is
\* the address at which the call, or the load of RAX before it, is written
CallDistance ==
    Sub64(op.func, Add64(emitted[CallIndex(emitted, 1)].at, U(5)))

\* C5: on 64-bit targets every ABI_CallFunction* variant emits one call: a
\* direct near CALL, which reaches the target, exactly when the distance
\* target - (currentEmitAddress + 5) modulo 2^64 fits a signed 32-bit
\* displacement, and otherwise MOV RAX, target followed by a call through RAX.
\* Distances 0x7FFFFFFF and 0xFFFFFFFF80000000 take the near path,
\* 0x80000000 and 0xFFFFFFFF7FFFFFFF the indirect path.
C5_NearCallIffDistanceFits ==
    /\ (M_X64 /\ op.name \in CallOps /\ phase \in {"run", "done"}) =>
          LET i == CallIndex(emitted, 1)
              near == emitted[i].op = "CALL"
              far == /\ emitted[i] = [Insn("MOV", 64, R(RAX), Imm64(op.func))
                                         EXCEPT !.at = emitted[i].at]
                     /\ emitted[i + 1].op = "CALLptr"
                     /\ emitted[i + 1].src = R(RAX)
          IN  /\ i > 0
              /\ Cardinality({j \in 1..Len(emitted) :
                                 emitted[j].op \in {"CALL", "CALLptr"}}) = 1
              /\ IF FitsSigned32(CallDistance) THEN near ELSE far
              /\ CallDistance \in {<<W - 1, 32767, 0, 0>>, <<0, 32768, W - 1, W - 1>>}
                    => near
              /\ CallDistance \in {<<0, 32768, 0, 0>>, <<W - 1, 32767, W - 1, W - 1>>}
                    => far
    /\ (AtCall /\ M_X64) => CallTarget(emitted[pc]) = op.func

\* a target 0x80000000 bytes past the end of a near call is called through RAX
C5_Witness ==
    /\ AtCall /\ abi = "Win64" /\ op.name = "CallFunctionRR"
    /\ CallDistance = <<0, 32768, 0, 0>>
    /\ emitted[pc].op = "CALLptr" /\ regs[RAX] = op.func

\* the bytes pushed by the PUSH instructions among the first n emitted
RECURSIVE PushedBytes(_)
PushedBytes(n) ==
    IF n = 0 THEN 0
    ELSE (IF emitted[n].op = "PUSH" THEN emitted[n].bits \div 8 ELSE 0)
            + PushedBytes(n - 1)

\* C6: in every 32-bit ABI_CallFunction* variant the frame size given to
\* ABI_AlignStack and ABI_RestoreStack is the number of bytes pushed as
\* arguments: ABI_AlignStack subtracts the aligned size of the pushed bytes
\* less the pushed bytes, ABI_RestoreStack adds that aligned size, and what
\* is subtracted plus what is pushed is what is added.  With a callee that
\* leaves its arguments on the stack, the stack pointer after the emitted
\* sequence is the stack pointer before it, on 32-bit and 64-bit targets.
C6_CallLeavesStackPointer ==
    /\ (M_IX86 /\ op.name \in CallOps /\ phase \in {"run", "done"}) =>
          LET n == Len(emitted)
              pushed == PushedBytes(n)
              added == ABI_GetAlignedFrameSize(U(pushed), op.noProlog)
              fill == Sub32(added, U(pushed))
          IN  /\ IF fill = U(0) THEN emitted[1].op # "SUB"
                 ELSE /\ emitted[1].op = "SUB" /\ emitted[1].dst = R(RSP)
                      /\ SignedImm(emitted[1].src) = fill
              /\ IF added = U(0) THEN emitted[n].op # "ADD"
                 ELSE /\ emitted[n].op = "ADD" /\ emitted[n].dst = R(RSP)
                      /\ SignedImm(emitted[n].src) = added
              /\ AtCall => Sub32(EntrySP, SP) = added
    /\ (phase = "done" /\ op.name \in CallOps) => SP = EntrySP

\* 10 bytes of fill, 6 bytes of arguments, the call, 16 bytes added
C6_Witness ==
    /\ phase = "done" /\ abi = "Unix32" /\ op.name = "CallFunctionCC16"
    /\ Len(emitted) = 5 /\ emitted[1].op = "SUB" /\ emitted[1].src.v = U(10)
    /\ emitted[5].src.v = U(16) /\ SP = EntrySP

\* the registers a callee must preserve, the stack pointer aside
CalleeSaved ==
    CASE M_IX86 -> {RBP, RBX, RSI, RDI}
      [] abi = "Win64" -> {RBP, RBX, RSI, RDI, R12, R13, R14, R15}
      [] OTHER -> {RBP, RBX, R12, R13, R14, R15}

Reservation ==
    CASE M_IX86 -> 12 [] abi = "Win64" -> 40 [] OTHER -> 8

\* the registers of the instructions named kind among emitted[from..to]
RECURSIVE RegsOf(_, _, _)
RegsOf(kind, from, to) ==
    IF from > to THEN <<>>
    ELSE (IF emitted[from].op = kind
          THEN <<IF kind = "PUSH" THEN emitted[from].src.r ELSE emitted[from].dst.r>>
          ELSE <<>>) \o RegsOf(kind, from + 1, to)

Reverse(seq) == [i \in 1..Len(seq) |-> seq[Len(seq) + 1 - i]]

\* C7: on each ABI, ABI_PopAllCalleeSavedRegsAndAdjustStack first adds back
\* the reservation ABI_PushAllCalleeSavedRegsAndAdjustStack subtracted last
\* (0xC on 32-bit targets, 0x28 on Win64, 8 on Unix64), then pops the
\* registers that were pushed, in the reverse order; the push sequence
\* followed by the pop sequence leaves the stack pointer, the base pointer
\* and every callee-saved register with their values on entry.
C7_PopAllMirrorsPushAll ==
    /\ (op.name = "PushPopAll" /\ phase \in {"run", "done"}) =>
          LET first == Len(emitted) - Len(RegsOf("POP", 1, Len(emitted)))
          IN  /\ emitted[op.mark].op = "SUB" /\ emitted[op.mark].dst = R(RSP)
              /\ emitted[op.mark].src = Imm8(U(Reservation))
              /\ emitted[first].op = "ADD" /\ emitted[first].dst = R(RSP)
              /\ emitted[first].src = Imm8(U(Reservation))
              /\ first \in {op.mark + 1, op.mark + 2}
              /\ RegsOf("POP", first + 1, Len(emitted))
                    = Reverse(RegsOf("PUSH", 1, op.mark))
              /\ {emitted[j].dst.r : j \in first + 1..Len(emitted)} = CalleeSaved
    /\ (op.name = "PushPopAll" /\ phase = "done") =>
          /\ SP = EntrySP
          /\ \A r \in CalleeSaved : regs[r] = entry.regs[r]

\* Unix64, with code between the two sequences that changed the registers
C7_Witness ==
    /\ op.name = "PushPopAll" /\ phase = "done" /\ abi = "Unix64"
    /\ Len(emitted) = 16 /\ emitted[9].op = "BODY"
    /\ regs[RAX] = Junk /\ regs[R15] = entry.regs[R15]
    /\ regs[RBP] = entry.regs[RBP] /\ SP = EntrySP

\* C11 as stated: on Unix64, ABI_GetAlignedFrameSize(0, true) returns 16.
C11_Unix64NoPrologReturns16 ==
    (abi = "Unix64" /\ op.name \in FrameOps /\ op.frameSize = U(0) /\ op.noProlog) =>
        ret = U(16)

\* C11 as amended: on Unix64, as on Win64, ABI_GetAlignedFrameSize returns the
\* fixed value 40 (0x28) when noProlog is true and 0 when it is false,
\* whatever the frame size; ABI_GetAlignedFrameSize(0, true) is 40.  The
\* subtract / round up to 16 / add back formula is that of the 32-bit
\* non-Windows target only.
C11_Unix64NoPrologReturns40 ==
    (abi = "Unix64" /\ op.name \in FrameOps) =>
        ret = IF op.noProlog THEN U(40) ELSE U(0)

C11_Witness ==
    /\ phase = "aligned" /\ abi = "Unix64" /\ op.noProlog
    /\ op.frameSize = U(0) /\ ret = U(40)
    /\ Len(emitted) = 1 /\ emitted[1].op = "SUB" /\ emitted[1].src = Imm8(U(40))

\* the stack pointer on entry to a register save is a multiple of 16, or one
\* register width below a multiple of 16 when no prolog has run
SaveEntryAligned ==
    (EntrySP[1] + (IF op.noProlog THEN RegSize ELSE 0)) % 16 = 0

\* the instructions of ABI_PushRegistersAndAdjustStack have just been executed
AfterSave ==
    /\ op.name = "PushPopRegisters" /\ phase = "run" /\ pc = op.mark + 1

\* C12: for every register mask and both values of noProlog, when the stack
\* pointer on entry is a multiple of 16 (noProlog false) or one register
\* width below a multiple of 16 (noProlog true), the stack pointer after the
\* instructions emitted by ABI_PushRegistersAndAdjustStack is a multiple of
\* 16, whatever the number of general-purpose registers pushed, on every ABI.
C12_StackAlignedAfterSave ==
    (AfterSave /\ SaveEntryAligned) => SP[1] % 16 = 0

\* Unix64 with a prolog: one push (8 bytes), then 8 bytes of realignment and
\* one 16-byte vector slot
C12_Witness ==
    /\ AfterSave /\ SaveEntryAligned /\ abi = "Unix64" /\ ~op.noProlog
    /\ op.mask = <<1, 1>> /\ Diff(EntrySP, SP) = 32 /\ SP[1] % 16 = 0

\* the instructions named kind among emitted[from..to], in order
InsnsOf(kind, from, to) ==
    SelectSeq(SubSeq(emitted, from, to), LAMBDA i : i.op = kind)

\* the selected vector registers in ascending order
SelectedXMM == SelectSeq([i \in 1..16 |-> i - 1], LAMBDA x : XMMSelected(op.mask, x))

SelectedGP == SelectSeq([i \in 1..16 |-> i - 1], LAMBDA r : GPSelected(op.mask, r))

\* the bytes the SUB of the save reserves (0 when it emits none)
Reserved ==
    LET subs == InsnsOf("SUB", 1, op.mark)
    IN  IF subs = <<>> THEN 0 ELSE subs[1].src.v[1]

\* the stack pointer once the save has run
SavedSP == Ptr(Sub64(EntrySP, U(Len(SelectedGP) * RegSize + Reserved)))

\* C13: ABI_PushRegistersAndAdjustStack stores the k-th selected vector
\* register (k = 0, 1, ... in ascending index order) at offset shadow + 16*k
\* from the stack pointer (shadow = 32 on Win64, 0 otherwise) and
\* ABI_PopRegistersAndAdjustStack loads it from the same offset from the same
\* stack pointer; each 16-byte slot lies inside the region the single SUB
\* reserves, above the shadow space, apart from the other slots and below
\* the pushed general-purpose registers, and still holds the register's value
\* when it is loaded.
C13_VectorSlots ==
    /\ (op.name = "PushPopRegisters" /\ phase = "run" /\ pc = 1) =>
          LET stores == InsnsOf("MOVAPD_ST", 1, op.mark)
              loads == InsnsOf("MOVAPD_LD", op.mark + 1, Len(emitted))
              n == Len(SelectedXMM)
          IN  /\ Len(stores) = n /\ Len(loads) = n
              /\ Len(InsnsOf("SUB", 1, Len(emitted))) <= 1
              /\ InsnsOf("MOVAPD_ST", op.mark + 1, Len(emitted)) = <<>>
              /\ InsnsOf("MOVAPD_LD", 1, op.mark) = <<>>
              /\ \A k \in 0..n - 1 :
                    /\ stores[k + 1].src = XMM(SelectedXMM[k + 1])
                    /\ stores[k + 1].dst = MDisp(RSP, Shadow + 16 * k)
                    /\ loads[k + 1].dst = XMM(SelectedXMM[k + 1])
                    /\ loads[k + 1].src = MDisp(RSP, Shadow + 16 * k)
                    /\ Shadow + 16 * k + 16 <= Reserved
    /\ (op.name = "PushPopRegisters" /\ phase = "run" /\ pc <= Len(emitted)
          /\ emitted[pc].op \in {"MOVAPD_ST", "MOVAPD_LD"}) => SP = SavedSP
    /\ (op.name = "PushPopRegisters" /\ phase = "run" /\ pc <= Len(emitted)
          /\ emitted[pc].op = "MOVAPD_LD" /\ ~Misaligned(emitted[pc])) =>
             Load(mem, EffAddr(emitted[pc].src), 16) = entry.xmm[emitted[pc].dst.r]

\* Win64: XMM15, the second of two selected vector registers, is about to be
\* loaded from offset 32 + 16 after code that changed it and wrote the
\* shadow space
C13_Witness ==
    /\ op.name = "PushPopRegisters" /\ phase = "run" /\ abi = "Win64"
    /\ op.mask[2] = 1 + 32768 /\ emitted[op.mark + 1].op = "BODY"
    /\ pc <= Len(emitted) /\ emitted[pc] = [InsnMOVAPD_load(15, MDisp(RSP, 48))
                                              EXCEPT !.at = emitted[pc].at]
    /\ xmm[15] = Junk /\ Load(mem, EffAddr(emitted[pc].src), 16) = entry.xmm[15]
    /\ Load(mem, SP, 16) = Junk

\* an emitted instruction without its address
Strip(i) == [i EXCEPT !.at = U(0)]

\* the instructions of the save, and those of the restore
SaveSeq == [k \in 1..op.mark |-> Strip(emitted[k])]

RestoreSeq ==
    LET first == IF op.mark < Len(emitted) /\ emitted[op.mark + 1].op = "BODY"
                 THEN op.mark + 2 ELSE op.mark + 1
    IN  [k \in 1..Len(emitted) + 1 - first |-> Strip(emitted[first + k - 1])]

\* the instruction that undoes an instruction of the save
Inverse(i) ==
    CASE i.op = "PUSH" -> Insn("POP", i.bits, i.src, NoArg)
      [] i.op = "SUB" -> Insn("ADD", i.bits, i.dst, i.src)
      [] i.op = "MOVAPD_ST" -> Insn("MOVAPD_LD", i.bits, i.src, i.dst)
      [] OTHER -> i

\* the order of emission: pushes in ascending register order, then the SUB,
\* then the vector stores; vector loads, then the ADD, then pops in
\* descending register order
SaveRestoreOrder ==
    LET gp == SelectedGP
        vec == SelectedXMM
        save == SaveSeq
        restore == RestoreSeq
        g == Len(gp)
        n == Len(vec)
        len == Len(save)
    IN  /\ len \in {g + n, g + n + 1}
        /\ Len(restore) = len
        /\ \A k \in 1..g : save[k] = InsnPUSH(gp[k])
        /\ len = g + n + 1 => save[g + 1].op = "SUB" /\ save[g + 1].dst = R(RSP)
        /\ \A k \in 1..n : /\ save[len - n + k].op = "MOVAPD_ST"
                           /\ save[len - n + k].src = XMM(vec[k])
        /\ \A k \in 1..n : restore[k].op = "MOVAPD_LD"
        /\ len = g + n + 1 => restore[n + 1] = Inverse(save[g + 1])
        /\ \A k \in 1..g : restore[len - g + k] = InsnPOP(gp[g + 1 - k])

\* the restore is the save read backwards, each instruction undone
RestoreIsReverse ==
    LET save == SaveSeq
        restore == RestoreSeq
    IN  \A k \in 1..Len(save) : restore[k] = Inverse(save[Len(save) + 1 - k])

\* ABI_PopRegistersAndAdjustStack has just returned: the save and the restore
\* are in the buffer and nothing of them has run
RestoreEmitted == op.name = "PushPopRegisters" /\ phase = "run" /\ pc = 1

\* C14 as stated: ABI_PushRegistersAndAdjustStack emits the general-purpose
\* pushes in ascending register order, then the stack subtraction, then the
\* vector stores; ABI_PopRegistersAndAdjustStack emits the vector loads, then
\* the stack addition, then the pops in descending register order; so the
\* pop sequence is exactly the reverse of the push sequence for every mask.
C14_RestoreIsExactReverse ==
    RestoreEmitted => SaveRestoreOrder /\ RestoreIsReverse

\* C14 as amended: the order of emission is as stated, and the restore
\* undoes the save group by group in reverse (loads for stores, ADD of the
\* same amount for SUB, pops for pushes) with the pops in the reverse order
\* of the pushes; the vector loads, however, are emitted in ascending
\* register order, the order of the stores, each from the slot of its store,
\* so the restore is the exact reverse of the save only for masks that select
\* at most one vector register.
C14_RestoreReversesGroups ==
    RestoreEmitted =>
        /\ SaveRestoreOrder
        /\ LET save == SaveSeq
               restore == RestoreSeq
               n == Len(SelectedXMM)
           IN  \A k \in 1..n : restore[k] = Inverse(save[Len(save) - n + k])
        /\ Len(SelectedXMM) <= 1 <=> RestoreIsReverse

\* Win64, three pushed registers and two vector registers: XMM0 is stored
\* first and loaded first, RAX is pushed first and popped last
C14_Witness ==
    /\ RestoreEmitted /\ abi = "Win64" /\ op.mask = <<1 + 16 + 32768, 1 + 32768>>
    /\ Len(SaveSeq) = 6 /\ Len(RestoreSeq) = 6
    /\ SaveSeq[1] = InsnPUSH(RAX) /\ SaveSeq[5] = InsnMOVAPD_store(MDisp(RSP, 32), 0)
    /\ RestoreSeq[1] = InsnMOVAPD_load(0, MDisp(RSP, 32))
    /\ RestoreSeq[2] = InsnMOVAPD_load(15, MDisp(RSP, 48))
    /\ RestoreSeq[6] = InsnPOP(RAX)
    /\ ~RestoreIsReverse

\* the instructions of ABI_PushAllCalleeSavedRegsAndAdjustStack have just run
AfterFrame == op.name = "PushPopAll" /\ phase = "run" /\ pc = op.mark + 1

\* the stack pointer is one return address below a multiple of 16
AfterCallInto == (EntrySP[1] + RegSize) % 16 = 0

\* C15: on each ABI, when the stack pointer on entry to
\* ABI_PushAllCalleeSavedRegsAndAdjustStack is one return-address slot below
\* a multiple of 16, the stack pointer after the emitted pushes and the fixed
\* reservation is a multiple of 16; on Win64 the reservation is at least 32
\* bytes and every saved register lies at least 32 bytes above the stack
\* pointer, which leaves the shadow space free.
C15_FrameAligned ==
    (AfterFrame /\ AfterCallInto) =>
        /\ SP[1] % 16 = 0
        /\ Diff(EntrySP, SP) = Cardinality(CalleeSaved) * RegSize + Reservation
        /\ abi = "Win64" =>
              /\ emitted[op.mark].op = "SUB" /\ emitted[op.mark].src.v[1] >= 32
              /\ \A c \in DOMAIN mem : Diff(c, SP) >= 32
              /\ \A r \in CalleeSaved :
                    \E c \in DOMAIN mem :
                        /\ Diff(c, SP) >= 32 /\ Diff(c, SP) < Far
                        /\ mem[c] = [size |-> 8, val |-> entry.regs[r]]

\* Win64: 8 pushes and 40 bytes take the stack pointer from 8 mod 16 to a
\* multiple of 16, 104 bytes lower
C15_Witness ==
    /\ AfterFrame /\ AfterCallInto /\ abi = "Win64"
    /\ EntrySP[1] % 16 = 8 /\ SP[1] % 16 = 0 /\ Diff(EntrySP, SP) = 104
    /\ Load(mem, Ptr(Add64(SP, U(40))), 8) = entry.regs[R15]

\* the save and the restore of the empty mask are in the buffer
EmptyMaskEmitted == RestoreEmitted /\ op.mask = <<0, 0>>

\* the save and the restore are one SUB and one ADD of n bytes, or nothing
\* when n is 0
OnlyAdjusts(n) ==
    IF n = 0 THEN SaveSeq = <<>> /\ RestoreSeq = <<>>
    ELSE /\ SaveSeq = <<Insn("SUB", RegSize * 8, R(RSP), Imm8(U(n)))>>
         /\ RestoreSeq = <<Insn("ADD", RegSize * 8, R(RSP), Imm8(U(n)))>>

\* C16 as stated: with mask = 0, for either value of noProlog,
\* ABI_PushRegistersAndAdjustStack emits nothing on 32-bit targets and on
\* Win64 only a subtraction of the 32 bytes of shadow space, and
\* ABI_PopRegistersAndAdjustStack is nothing, or the one addition of 32.
C16_EmptyMaskIsShadowOnly ==
    EmptyMaskEmitted =>
        /\ M_IX86 => OnlyAdjusts(0)
        /\ abi = "Win64" => OnlyAdjusts(32)

\* C16 as amended: with mask = 0 and noProlog false,
\* ABI_PushRegistersAndAdjustStack emits nothing on 32-bit targets and on
\* Unix64, and on Win64 only a subtraction of the 32 bytes of shadow space;
\* with noProlog true the subtraction also realigns the stack after the
\* return address: 12 bytes on 32-bit targets, 8 on Unix64, 40 on Win64.
\* ABI_PopRegistersAndAdjustStack with mask = 0 is the addition of the same
\* amount, or nothing.
C16_EmptyMaskAdjusts ==
    EmptyMaskEmitted =>
        OnlyAdjusts((IF op.noProlog THEN 16 - RegSize ELSE 0)
                       + (IF abi = "Win64" THEN 32 ELSE 0))

\* 32-bit, no prolog: the empty mask still subtracts 12 bytes
C16_Witness ==
    /\ EmptyMaskEmitted /\ abi = "Win32" /\ op.noProlog
    /\ Len(emitted) = 2
    /\ emitted[1].op = "SUB" /\ emitted[1].src = Imm8(U(12))
    /\ emitted[2].op = "ADD" /\ emitted[2].src = Imm8(U(12))

\* the frame sizes a 32-bit target must reach and how
Modulus == IF WIN32 THEN 4 ELSE 16

Residue == IF WIN32 THEN 0 ELSE IF op.noProlog THEN 12 ELSE 0

\* the padding ABI_AlignStack subtracts: aligned size - frameSize modulo 2^32
Padding == Sub32(ret, op.frameSize)

\* ret is congruent to Residue and less than Modulus above frameSize (modulo
\* 2^32), and ABI_AlignStack encodes that padding unchanged in its Imm8
PaddingSmall ==
    /\ ret[1] % Modulus = Residue
    /\ Padding[2] = 0 /\ Padding[1] < Modulus
    /\ phase = "aligned" =>
          IF Padding = U(0) THEN emitted = <<>>
          ELSE /\ Len(emitted) = 1
               /\ Strip(emitted[1]) = Insn("SUB", 32, R(RSP), Imm8(Padding))
               /\ SignedImm(emitted[1].src) = Padding

\* C17 as stated: on 32-bit targets, for every frameSize and noProlog,
\* ABI_GetAlignedFrameSize returns the smallest r >= frameSize that is a
\* multiple of 4 (Windows) or congruent to (noProlog ? 12 : 0) modulo 16
\* (non-Windows); so the padding r - frameSize is in 0..3 or 0..15 and fits
\* the 8-bit immediate of ABI_AlignStack.
C17_SmallestAlignedAtLeastFrameSize ==
    (M_IX86 /\ op.name \in FrameOps) =>
        /\ ~Lt64(ret, op.frameSize)
        /\ PaddingSmall

\* C17 as amended: on 32-bit targets, for every frameSize and noProlog, the
\* result r is a multiple of 4 (Windows) or congruent to (noProlog ? 12 : 0)
\* modulo 16 (non-Windows), and the padding r - frameSize taken modulo 2^32 is
\* in 0..3 or 0..15 and fits the 8-bit immediate; r is the smallest such
\* value >= frameSize for every frameSize up to 2^32 - 16, frame sizes below
\* 12 included, while for the frame sizes above it for which frameSize +
\* padding reaches 2^32 the result has wrapped and is below frameSize.
C17_AlignedWithSmallPadding ==
    (M_IX86 /\ op.name \in FrameOps) =>
        /\ PaddingSmall
        /\ ~Lt64(<<W - 16, W - 1, 0, 0>>, op.frameSize) => ~Lt64(ret, op.frameSize)
        /\ Lt64(ret, op.frameSize) <=>
              Add64(op.frameSize, Padding)[3] = 1

\* 32-bit non-Windows, no prolog, frameSize 5: the subtraction of 12 wraps,
\* the result is 12 and the padding 7
C17_Witness ==
    /\ phase = "aligned" /\ abi = "Unix32" /\ op.noProlog /\ op.frameSize = U(5)
    /\ ret = U(12) /\ Padding = U(7)
    /\ Len(emitted) = 1 /\ emitted[1].src = Imm8(U(7))

\* a 64-bit call-site builder has just returned: its instructions are in the
\* buffer and none has run
CallEmitted64 == M_X64 /\ op.name \in CallOps /\ phase = "run" /\ pc = 1

\* C18: in every 64-bit ABI_CallFunction* variant the instructions written
\* before the call are the stack alignment and the argument moves and nothing
\* is written after it but the stack restore; a near CALL is written at the
\* address the emission cursor has after the alignment and all the moves,
\* which is the address its distance was checked from: the distance from the
\* end of the CALL as written to the target fits 32 signed bits and the CALL
\* reaches the target.
C18_DistanceFromCallAddress ==
    CallEmitted64 =>
        LET i == CallIndex(emitted, 1)
            last == IF emitted[i].op = "CALL" THEN i ELSE i + 1
            params == {ABI_PARAM1, ABI_PARAM2, ABI_PARAM3, ABI_PARAM4}
        IN  /\ i > 0
            /\ \A j \in 1..i - 1 :
                  \/ j = 1 /\ emitted[j].op = "SUB" /\ emitted[j].dst = R(RSP)
                  \/ /\ emitted[j].op = "MOV" /\ emitted[j].dst.k = "R"
                     /\ emitted[j].dst.r \in params
            /\ \A j \in last + 1..Len(emitted) :
                  j = Len(emitted) /\ emitted[j].op = "ADD" /\ emitted[j].dst = R(RSP)
            /\ emitted[i].at = Add64(CodeBase(abi), U(TotalLen(emitted, i - 1)))
            /\ emitted[i].op = "CALL" =>
                  /\ FitsSigned32(Sub64(op.func, Add64(emitted[i].at, U(5))))
                  /\ emitted[i].src = Imm32(Sub64(op.func, Add64(emitted[i].at, U(5))))
                  /\ CallTarget(emitted[i]) = op.func

\* Win64, no prolog: the alignment and two moves take 10 bytes, and the CALL
\* written after them is 0x7FFFFFFF bytes from its target, the farthest a
\* near CALL reaches
C18_Witness ==
    /\ CallEmitted64 /\ abi = "Win64" /\ op.name = "CallFunctionRR" /\ op.noProlog
    /\ Len(emitted) = 5 /\ emitted[4].op = "CALL"
    /\ Diff(emitted[4].at, CodeBase(abi)) = 10
    /\ Sub64(op.func, Add64(emitted[4].at, U(5))) = <<W - 1, 32767, 0, 0>>
    /\ FitsSigned32(Sub64(op.func, Add64(emitted[1].at, U(5)))) = FALSE

\* the next instruction to execute is the call of a Win64 call site that has
\* no prolog, is inside a callee-saved frame, or follows a register save
AtCallWin64 ==
    /\ abi = "Win64" /\ phase = "run"
    /\ pc <= Len(emitted) /\ emitted[pc].op \in {"CALL", "CALLptr"}
    /\ \/ op.name \in {"CallInFrame", "CallAfterSave"}
       \/ op.name = "CallFunctionRR" /\ op.noProlog

\* the registers this layer has saved below the stack pointer of entry
SavedRegisters ==
    CASE op.name = "CallInFrame" -> 8
      [] op.name = "CallAfterSave" ->
           Cardinality({r \in 0..15 : GPSelected(op.mask, r)})
             + Cardinality({x \in 0..15 : XMMSelected(op.mask, x)})
      [] OTHER -> 0

\* the stack cells between the shadow space and the stack pointer of entry
AboveShadow ==
    {c \in DOMAIN mem :
        /\ Diff(c, SP) # Far /\ Diff(c, SP) >= 32
        /\ Diff(EntrySP, c) # Far /\ Diff(EntrySP, c) > 0}

\* C19: on Win64, at the CALL of a call site with noProlog = true, of one
\* inside the frame of ABI_PushAllCalleeSavedRegsAndAdjustStack and of one
\* directly after ABI_PushRegistersAndAdjustStack, for 0, 2 and 4 arguments,
\* the 32 bytes from the stack pointer lie below the stack pointer of entry
\* and no saved register is in them: every saved register is in a cell at or
\* above them; and after the call, which may write them, the saved registers
\* are restored to their values of entry.
C19_ShadowSpaceAtCall ==
    /\ AtCallWin64 =>
          /\ Diff(EntrySP, SP) # Far /\ Diff(EntrySP, SP) >= 32
          /\ \A c \in DOMAIN mem : ~Overlap(c, mem[c].size, SP, 32)
          /\ Cardinality(AboveShadow) = SavedRegisters
    /\ (abi = "Win64" /\ phase = "done" /\ op.name = "CallInFrame") =>
          \A r \in CalleeSaved : regs[r] = entry.regs[r]
    /\ (abi = "Win64" /\ phase = "done" /\ op.name = "CallAfterSave") =>
          /\ \A r \in 0..15 : GPSelected(op.mask, r) => regs[r] = entry.regs[r]
          /\ \A x \in 0..15 : XMMSelected(op.mask, x) => xmm[x] = entry.xmm[x]

\* Win64, a call of four arguments after the save of every general-purpose
\* register and XMM0..XMM7: the first vector slot is the cell at the end of
\* the shadow space
C19_Witness ==
    /\ AtCallWin64 /\ op.name = "CallAfterSave" /\ op.mask = <<W - 1, 255>>
    /\ Len(op.args) = 4
    /\ Ptr(Add64(SP, U(32))) \in DOMAIN mem
    /\ mem[Ptr(Add64(SP, U(32)))].val = entry.xmm[0]

====
